---- MODULE Spec2Model ----
(***************************************************************************)
(* Device I/O core of MaaStarRail: the watchdog of module/device/device.py *)
(* (click-loop detector and stuck timer), the debounced Timer of           *)
(* module/base/timer.py and the retry decorators of module/device.         *)
(***************************************************************************)
EXTENDS Integers, Sequences, FiniteSets, TLC

VARIABLES
    click_record,   \* Device.click_record: deque(maxlen=30), oldest entry first
    stuck_timer,    \* Device.stuck_timer: the Timer(60, count=60) of the class
    disabled,       \* per Device instance: disable_stuck_detection() was called
    now,            \* time.time()
    last_op,        \* outcome of the last Device operation, as its caller saw it
    timer,          \* a Timer object of module/base/timer.py
    timer_obs,      \* what the caller of that Timer has observed since its reset
    stuck_obs,      \* what the callers of the stuck timer have observed since its reset
    retry_ctx,      \* the frame of one retry_wrapper call
    retry_out,      \* what the caller of the retry-wrapped operation received
    dec,            \* a buffer handed to a decoder of captures, and what came back
    shot,           \* a Screenshot object of module/device/screenshot.py
    nemu,           \* a NemuIpcImpl object, its workers and its caller
    mt,             \* a MaaTouch object, its pre-warm threads and its caller
    conn            \* a Connection object and the adb server it talks to

vars == <<click_record, stuck_timer, disabled, now, last_op,
          timer, timer_obs, stuck_obs, retry_ctx, retry_out, dec, shot, nemu,
          mt, conn>>

deviceVars == <<click_record, stuck_timer, stuck_obs, disabled, last_op>>
timerVars  == <<timer, timer_obs>>
retryVars  == <<retry_ctx, retry_out>>
shotVars   == <<shot>>
nemuVars   == <<nemu>>
mtVars     == <<mt>>
connVars   == <<conn>>
restVars   == <<dec, shotVars, nemuVars, mtVars, connVars>>
notDevice  == <<timerVars, retryVars, restVars>>

----------------------------------------------------------------------------
(* Bounds of the model *)

MaxRuns == 3            \* runs of equal identifiers held by the click record
ClockStart == 100       \* first value of time.time() in a behaviour
MaxTimerTicks == 8      \* seconds the clock advances in the Timer behaviours
MaxReach == 9           \* polls of the free-standing Timer between two resets
MaxStuckTicks == 62     \* seconds the clock advances in the stuck behaviours
MaxStuckPolls == 62     \* polls of the stuck timer between two resets
MaxResetTicks == 2      \* seconds of a stuck behaviour in which the app is started or stopped
MaxSharedPolls == 2     \* captures between two resets in the behaviours of two devices
MaxInspectClicks == 13  \* length of the click record in the paced behaviours
MaxRawSide == 2         \* width and height of a raw screencap, in pixels
MaxCaptureCalls == 1    \* calls of Device.screenshot() in the retry behaviours
MaxInits == 3           \* runs of maatouch_init
MaxThreads == 2         \* pre-warm threads started
MaxClicks == 1          \* calls of click_maatouch
MaxJobs == 2            \* calls of _screenshot handed to workers
MaxForwards == 3        \* entries of adb forward --list
MaxReverses == 2        \* entries of adb reverse --list
MaxReconnects == 1      \* reconnects of one object
MaxResources == 3       \* resources added to a DeviceManager
MaxPort == 2            \* tcp ports 1..MaxPort
MaxRemedyRuns == 2      \* reconnects that run as remediations
MaxRemedyPointer == 2   \* decodes before a remediation start below this byte pointer
MaxPointer == 512       \* scans start only while the kept byte pointer is below this

(* Program constants *)

CLICK_RECORD_MAXLEN == 30
FIRST_N == 15
SINGLE_LIMIT == 12
PAIR_LIMIT == 6
BLESSING_LIMIT == 25
STUCK_LIMIT == 60
STUCK_COUNT == 60

Devices == {1, 2}

PlainButtons == {"SWIPE", "DRAG", "BUTTON"}
Buttons == PlainButtons \cup {"CHOOSE_OPTION_CONFIRM", "BLESSING_CONFIRM"}

Min(a, b) == IF a < b THEN a ELSE b

----------------------------------------------------------------------------
(* module/base/timer.py: class Timer *)

\* Timer.__init__(limit, count)
TimerNew(limit, count) ==
    [limit |-> limit, count |-> count, current |-> 0, reach_count |-> count]

\* Timer.started()
started(t) == t.current # 0

\* Timer.start()
start(t, time) ==
    IF ~started(t) THEN [t EXCEPT !.current = time, !.reach_count = 0] ELSE t

\* Timer.reset()
reset(t, time) == [t EXCEPT !.current = time, !.reach_count = 0]

\* Timer.clear()
clear(t) == [t EXCEPT !.current = 0, !.reach_count = t.count]

\* Timer.set_current(current, count)
set_current(t, time, cur, cnt) ==
    [t EXCEPT !.current = time - cur, !.reach_count = cnt]

\* Timer.reached(): the timer after the poll
reachedTimer(t) == [t EXCEPT !.reach_count = t.reach_count + 1]

\* Timer.reached() returning true as soon as one of the two conditions holds
reached_either(t, time) ==
    time - t.current > t.limit \/ t.reach_count + 1 > t.count

\* Timer.reached() returning true from elapsed = limit on
reached_at_limit(t, time) ==
    time - t.current >= t.limit /\ t.reach_count + 1 > t.count

\* Timer.reached() comparing the count held before the poll
reached_stale_count(t, time) ==
    time - t.current > t.limit /\ t.reach_count > t.count

\* Timer.reached(): the value returned by the poll
reached(t, time) ==
    time - t.current > t.limit /\ reachedTimer(t).reach_count > t.count

----------------------------------------------------------------------------
(* module/device/device.py: the click record *)

Count(s, x) == Cardinality({i \in DOMAIN s : s[i] = x})
Ids(s) == {s[i] : i \in DOMAIN s}
FirstIdx(s, x) == CHOOSE i \in DOMAIN s : s[i] = x /\ \A j \in 1..(i - 1) : s[j] # x

\* collections.Counter(s).most_common(2), as a sequence of <<id, count>>: the
\* identifiers by falling count, those of equal count by first occurrence
most_common2(s) ==
    LET items == {<<x, Count(s, x)>> : x \in Ids(s)}
        Before(p, q) ==
            \/ p[2] > q[2]
            \/ p[2] = q[2] /\ FirstIdx(s, p[1]) < FirstIdx(s, q[1])
        Top(S) == CHOOSE p \in S : \A q \in S \ {p} : Before(p, q)
    IN IF items = {} THEN <<>>
       ELSE LET a == Top(items)
            IN IF items = {a} THEN <<a>> ELSE <<a, Top(items \ {a})>>

\* itertools.islice(click_record, 0, 15): the entries at index 0..14, oldest first
first15(rec) == SubSeq(rec, 1, Min(FIRST_N, Len(rec)))

\* deque(maxlen=30).append(str(button))
click_record_add(rec, button) ==
    IF Len(rec) < CLICK_RECORD_MAXLEN THEN Append(rec, button)
    ELSE Append(Tail(rec), button)

\* Device.click_record_remove(button): every occurrence is removed
click_record_remove(rec, button) == SelectSeq(rec, LAMBDA x : x # button)

\* The allowance of click_record_check for BLESSING_CONFIRM (lines 297-300)
blessingAllowed(rec) ==
    /\ \E i \in DOMAIN rec : rec[i] = "CHOOSE_OPTION_CONFIRM"
    /\ \E i \in DOMAIN rec : rec[i] = "BLESSING_CONFIRM"
    /\ LET whole == most_common2(rec)
       IN whole[1][1] = "BLESSING_CONFIRM" /\ whole[1][2] < BLESSING_LIMIT

\* click_record_check() asking more than PAIR_LIMIT of the second identifier
click_record_check_strict_pair(rec) ==
    LET count == most_common2(first15(rec))
    IN IF count[1][2] >= SINGLE_LIMIT
       THEN IF blessingAllowed(rec) THEN "none" ELSE "single"
       ELSE IF Len(count) >= 2 /\ count[1][2] >= PAIR_LIMIT /\ count[2][2] > PAIR_LIMIT
            THEN "pair"
            ELSE "none"

\* Device.click_record_check() on a non-empty record: "single" and "pair" raise
\* GameTooManyClickError after clearing the record, "none" returns
click_record_check(rec) ==
    LET count == most_common2(first15(rec))
    IN IF count[1][2] >= SINGLE_LIMIT
       THEN IF blessingAllowed(rec) THEN "none" ELSE "single"
       ELSE IF Len(count) >= 2 /\ count[1][2] >= PAIR_LIMIT /\ count[2][2] >= PAIR_LIMIT
            THEN "pair"
            ELSE "none"

\* Number of runs of equal identifiers in a record
Runs(rec) ==
    IF rec = <<>> THEN 0
    ELSE 1 + Cardinality({i \in 1..(Len(rec) - 1) : rec[i] # rec[i + 1]})

----------------------------------------------------------------------------
(* module/device/device.py: class Device *)

\* What the caller of a Device operation observes: the operation, the exception
\* it raised, whether click_record_check / stuck_record_check ran, the record
\* click_record_check examined, whether a gesture went to the controller, for a
\* capture the seconds and polls since the stuck timer was last reset, and what
\* app_is_running() answered if it was asked; after is the exception of the
\* operation before it, when no second passed in between
NoOp == [op |-> "none", error |-> "none", ran |-> FALSE, checked |-> <<>>,
         sent |-> FALSE, elapsed |-> 0, polls |-> 0, app |-> "unasked",
         device |-> 0, button |-> "none",
         p1 |-> <<0, 0>>, p2 |-> <<0, 0>>, distance_check |-> FALSE,
         after |-> "none"]

\* self.click_record and self.stuck_timer of a Device instance: no instance
\* ever assigns them, so both resolve to the attributes of the class
click_record_of(d) == click_record
stuck_timer_of(d) == stuck_timer

ObsReset == [polls |-> 0]

\* Device.stuck_record_clear()
stuck_record_clear(t, time) == reset(t, time)

\* Device.handle_control_check(button) catching the exception of the detector
handle_control_check_swallows(d, button) ==
    LET rec == click_record_add(click_record, button)
        verdict == IF disabled[d] THEN "none" ELSE click_record_check(rec)
    IN [record  |-> IF verdict = "none" THEN rec ELSE <<>>,
        checked |-> rec,
        ran     |-> ~disabled[d],
        error   |-> "none"]

\* Device.handle_control_check(button) with a detector that keeps the record
\* when it raises
handle_control_check_keeps_record(d, button) ==
    LET rec == click_record_add(click_record, button)
        verdict == IF disabled[d] THEN "none" ELSE click_record_check(rec)
    IN [record  |-> rec,
        checked |-> rec,
        ran     |-> ~disabled[d],
        error   |-> IF verdict = "none" THEN "none" ELSE "GameTooManyClickError"]

\* Device.handle_control_check(button) up to the return or raise of
\* click_record_check: the record it leaves and the exception it raises
handle_control_check(d, button) ==
    LET rec == click_record_add(click_record, button)
        verdict == IF disabled[d] THEN "none" ELSE click_record_check(rec)
    IN [record  |-> IF verdict = "none" THEN rec ELSE <<>>,
        checked |-> rec,
        ran     |-> ~disabled[d],
        error   |-> IF verdict = "none" THEN "none" ELSE "GameTooManyClickError"]

ControlStep(d, button, opname, transmit) ==
    \E h \in {handle_control_check(d, button)} :
       /\ \/ click_record # <<>> /\ click_record[Len(click_record)] = button
          \/ Runs(h.checked) <= MaxRuns
       /\ stuck_timer' = stuck_record_clear(stuck_timer, now)
       /\ stuck_obs' = ObsReset
       /\ click_record' = h.record
       /\ last_op' = [NoOp EXCEPT !.device = d, !.after = last_op.error, !.op = opname, !.error = h.error, !.ran = h.ran,
                                  !.checked = h.checked, !.button = button,
                                  !.sent = (h.error = "none" /\ transmit)]
       /\ UNCHANGED <<disabled, now, notDevice>>

\* Control.swipe(p1, p2, name=..., distance_check=...): far tells whether the end
\* points are at least 10 px apart
Swipe(d, name, far, distance_check) ==
    /\ name \in Buttons
    /\ ControlStep(d, name, "swipe", ~distance_check \/ far)

\* the square of np.linalg.norm(np.subtract(p1, p2))
norm2(p1, p2) ==
    (p1[1] - p2[1]) * (p1[1] - p2[1]) + (p1[2] - p2[2]) * (p1[2] - p2[2])

\* a distance check that drops the swipes of 10 px as well
norm_at_most_10(p1, p2) == norm2(p1, p2) <= 100

\* np.linalg.norm(np.subtract(p1, p2)) < 10
norm_below_10(p1, p2) == norm2(p1, p2) < 100

\* Control.swipe(p1, p2, name=..., distance_check=...) on integer points:
\* handle_control_check(name), then the distance check, then
\* controller.swipe()
SwipePoints(d, name, p1, p2, distance_check) ==
    \E h \in {handle_control_check(d, name)} :
       /\ stuck_timer' = stuck_record_clear(stuck_timer, now)
       /\ stuck_obs' = ObsReset
       /\ click_record' = h.record
       /\ last_op' = [NoOp EXCEPT !.device = d, !.after = last_op.error, !.op = "swipe", !.error = h.error,
                                  !.ran = h.ran, !.checked = h.checked,
                                  !.button = name,
                                  !.p1 = p1, !.p2 = p2,
                                  !.distance_check = distance_check,
                                  !.sent = /\ h.error = "none"
                                           /\ ~(distance_check /\ norm_below_10(p1, p2))]
       /\ UNCHANGED <<disabled, now, notDevice>>

\* Control.drag(p1, p2, name=...)
Drag(d, name) ==
    /\ name \in Buttons
    /\ ControlStep(d, name, "drag", TRUE)

\* Control.multi_click(button, n)
MultiClick(d, button) ==
    /\ button \in Buttons
    /\ ControlStep(d, button, "multi_click", TRUE)

\* Device.click_record_clear()
ClickRecordClear(d) ==
    /\ click_record # <<>>
    /\ click_record' = <<>>
    /\ last_op' = [NoOp EXCEPT !.device = d, !.op = "click_record_clear"]
    /\ UNCHANGED <<stuck_timer, stuck_obs, disabled, now, notDevice>>

\* Device.app_start() and Device.app_stop(), when the start or stop of the
\* controller returns (an exception of it leaves the watchdog as it was)
AppStartStop(d, opname) ==
    /\ stuck_timer' = stuck_record_clear(stuck_timer, now)
    /\ stuck_obs' = ObsReset
    /\ click_record' = <<>>
    /\ last_op' = [NoOp EXCEPT !.device = d, !.op = opname]
    /\ UNCHANGED <<disabled, now, notDevice>>

AppStart(d) ==
    /\ d \in Devices
    /\ AppStartStop(d, "app_start")

AppStop(d) ==
    /\ d \in Devices
    /\ AppStartStop(d, "app_stop")

\* Device.disable_stuck_detection()
DisableStuckDetection(d) ==
    /\ ~disabled[d]
    /\ disabled' = [disabled EXCEPT ![d] = TRUE]
    /\ last_op' = [NoOp EXCEPT !.device = d, !.op = "disable_stuck_detection"]
    /\ UNCHANGED <<click_record, stuck_timer, stuck_obs, now, notDevice>>

\* Device.stuck_record_check() leaving the timer unpolled
stuck_record_check_never(d, running) ==
    [timer |-> stuck_timer, ran |-> FALSE, error |-> "none", app |-> "unasked"]

\* Device.stuck_record_check(): the timer it leaves and the exception it raises;
\* running is the answer of app_is_running(), asked only once the timer is reached
stuck_record_check(d, running) ==
    IF disabled[d]
    THEN [timer |-> stuck_timer, ran |-> FALSE, error |-> "none", app |-> "unasked"]
    ELSE IF ~reached(stuck_timer, now)
         THEN [timer |-> reachedTimer(stuck_timer), ran |-> TRUE, error |-> "none",
               app |-> "unasked"]
         ELSE [timer |-> stuck_record_clear(reachedTimer(stuck_timer), now),
               ran   |-> TRUE,
               error |-> IF running THEN "GameStuckError" ELSE "GameNotRunningError",
               app   |-> IF running THEN "running" ELSE "not_running"]

CaptureOutcomes == {"ok", "RequestHumanTakeover"}

\* Device.screenshot(), lines 150-158: what the caller receives when the capture
\* of Screenshot.screenshot() ends with first, ascreencap_available is avail and
\* the capture repeated after the benchmark ends with second
screenshot_result(first, avail, second) ==
    IF first = "RequestHumanTakeover"
    THEN IF ~avail THEN second ELSE "RequestHumanTakeover"
    ELSE first

CaptureStep(d, opname, running, outcome) ==
    \E c \in {stuck_record_check(d, running)} :
       /\ stuck_obs.polls < MaxStuckPolls
       /\ stuck_timer' = c.timer
       /\ stuck_obs' = IF c.error # "none" THEN ObsReset
                       ELSE IF c.ran THEN [stuck_obs EXCEPT !.polls = stuck_obs.polls + 1]
                       ELSE stuck_obs
       /\ last_op' = [NoOp EXCEPT !.device = d, !.after = last_op.error, !.op = opname, !.ran = c.ran, !.app = c.app,
                                  !.error = IF c.error # "none" THEN c.error
                                            ELSE IF outcome = "ok" THEN "none"
                                            ELSE outcome,
                                  !.sent = (c.error = "none"),
                                  !.elapsed = now - stuck_timer.current,
                                  !.polls = stuck_obs.polls + 1]
       /\ UNCHANGED <<click_record, disabled, now, notDevice>>

\* Device.screenshot()
Screenshot(d, running, first, avail, second) ==
    /\ d \in Devices
    /\ CaptureStep(d, "screenshot", running, screenshot_result(first, avail, second))

\* Device.dump_hierarchy()
DumpHierarchy(d, running, outcome) ==
    /\ d \in Devices
    /\ CaptureStep(d, "dump_hierarchy", running, outcome)

\* One second passes
Tick(horizon) ==
    /\ now < ClockStart + horizon
    /\ now' = now + 1
    /\ last_op' = NoOp
    /\ UNCHANGED <<click_record, stuck_timer, stuck_obs, disabled, notDevice>>

----------------------------------------------------------------------------
(* The retry decorators of module/device *)

RETRY_TRIES == 4

Wrappers == {"adb", "connection", "maatouch", "uiautomator", "screenshot_component"}

ErrorTypes ==
    {"RequestHumanTakeover", "ConnectionResetError", "ConnectionAbortedError",
     "BrokenPipeError", "AdbError", "RuntimeError", "AssertionError",
     "JSONDecodeError", "PackageNotInstalled", "ImageTruncated",
     "MaaTouchNotInstalledError", "ScreenshotError", "Exception"}

\* An exception: its class, and what handle_adb_error(e) and
\* handle_unknown_host_service(e) answer when they are asked about it
Errors ==
    {e \in [type : ErrorTypes, adb : BOOLEAN, host : BOOLEAN, value : {0}] :
        /\ e.adb => e.type \in {"AdbError", "RuntimeError"}
        /\ e.host => e.type = "AdbError"}

NoError == [type |-> "none", adb |-> FALSE, host |-> FALSE, value |-> 0]

\* func was not invoked
NoFunc == [type |-> "Exception", adb |-> FALSE, host |-> FALSE, value |-> 0]

\* func returning a value
Values == {1, 2}
Returns == {[type |-> "return", adb |-> FALSE, host |-> FALSE, value |-> v] : v \in Values}

\* The AdbError clause shared by the decorators
except_AdbError(e, reconnect, restart) ==
    IF e.adb THEN reconnect ELSE IF e.host THEN restart ELSE "break"

\* retry of method/adb.py going on after a RequestHumanTakeover
retry_adb_retries_takeover(e) ==
    CASE e.type = "ConnectionResetError" -> "adb_reconnect"
      [] e.type = "AdbError" ->
            except_AdbError(e, "adb_reconnect", "adb_start_server,adb_reconnect")
      [] e.type = "PackageNotInstalled" -> "detect_package"
      [] OTHER -> "pass"

\* The except clauses of retry in method/adb.py: the init() they define, or "break"
retry_adb(e) ==
    CASE e.type = "RequestHumanTakeover" -> "break"
      [] e.type = "ConnectionResetError" -> "adb_reconnect"
      [] e.type = "AdbError" ->
            except_AdbError(e, "adb_reconnect", "adb_start_server,adb_reconnect")
      [] e.type = "PackageNotInstalled" -> "detect_package"
      [] e.type = "ImageTruncated" -> "pass"
      [] OTHER -> "pass"

\* retry of connection.py giving up on a ConnectionResetError
retry_connection_break_on_reset(e) ==
    CASE e.type \in {"RequestHumanTakeover", "ConnectionResetError"} -> "break"
      [] e.type = "AdbError" ->
            except_AdbError(e, "adb_reconnect", "adb_start_server,adb_reconnect")
      [] e.type = "PackageNotInstalled" -> "detect_package"
      [] OTHER -> "pass"

\* The except clauses of retry in connection.py
retry_connection(e) ==
    CASE e.type = "RequestHumanTakeover" -> "break"
      [] e.type = "ConnectionResetError" -> "adb_reconnect"
      [] e.type = "AdbError" ->
            except_AdbError(e, "adb_reconnect", "adb_start_server,adb_reconnect")
      [] e.type = "PackageNotInstalled" -> "detect_package"
      [] OTHER -> "pass"

\* retry of method/maatouch.py not installing MaaTouch when it is missing
retry_maatouch_never_installs(e) ==
    CASE e.type = "RequestHumanTakeover" -> "break"
      [] e.type \in {"ConnectionResetError", "ConnectionAbortedError"} ->
            "adb_reconnect,del_maatouch_builder"
      [] e.type = "AdbError" ->
            except_AdbError(e, "adb_reconnect,del_maatouch_builder",
                            "adb_start_server,adb_reconnect,del_maatouch_builder")
      [] e.type = "BrokenPipeError" -> "del_maatouch_builder"
      [] OTHER -> "pass"

\* The except clauses of retry in method/maatouch.py
retry_maatouch(e) ==
    CASE e.type = "RequestHumanTakeover" -> "break"
      [] e.type \in {"ConnectionResetError", "ConnectionAbortedError"} ->
            "adb_reconnect,del_maatouch_builder"
      [] e.type = "AdbError" ->
            except_AdbError(e, "adb_reconnect,del_maatouch_builder",
                            "adb_start_server,adb_reconnect,del_maatouch_builder")
      [] e.type = "MaaTouchNotInstalledError" -> "maatouch_install,del_maatouch_builder"
      [] e.type = "BrokenPipeError" -> "del_maatouch_builder"
      [] OTHER -> "pass"

\* The except clauses of retry in controllers/uiautomator_controller.py
retry_uiautomator(e) ==
    CASE e.type = "RequestHumanTakeover" -> "break"
      [] e.type = "ConnectionResetError" -> "adb_reconnect"
      [] e.type = "JSONDecodeError" -> "install_uiautomator2"
      [] e.type = "AdbError" ->
            except_AdbError(e, "adb_reconnect", "adb_start_server,adb_reconnect")
      [] e.type = "RuntimeError" -> IF e.adb THEN "adb_reconnect" ELSE "break"
      [] e.type = "AssertionError" -> "break"
      [] e.type = "PackageNotInstalled" -> "detect_package"
      [] e.type = "ImageTruncated" -> "pass"
      [] OTHER -> "pass"

\* The except clauses of retry in components/screenshot.py
retry_screenshot(e) ==
    CASE e.type = "RequestHumanTakeover" -> "break"
      [] e.type = "ConnectionResetError" -> "connection.reconnect"
      [] e.type = "ScreenshotError" -> "init_screenshot_tool"
      [] e.type = "AdbError" ->
            except_AdbError(e, "connection.reconnect",
                            "connection.start_server,connection.reconnect")
      [] e.type = "ImageTruncated" -> "pass"
      [] OTHER -> "pass"

except_clause(w, e) ==
    CASE w = "adb" -> retry_adb(e)
      [] w = "connection" -> retry_connection(e)
      [] w = "maatouch" -> retry_maatouch(e)
      [] w = "uiautomator" -> retry_uiautomator(e)
      [] w = "screenshot_component" -> retry_screenshot(e)

\* The frame of retry_wrapper: i is the loop variable, init the init() defined
\* by the last except clause; calls, inits, init_raised and fails count the
\* invocations of func, the invocations of init(), the invocations of init()
\* that raised, and the iterations that ended in an except clause; ran_init is
\* the init() the last iteration executed and ran_after the exception of the
\* iteration before it, steps what the last iteration executed, in order
CtxIdle ==
    [pc |-> "idle", wrapper |-> "adb", caller |-> "none", phase |-> 1, i |-> 0,
     init |-> "None", calls |-> 0, inits |-> 0, init_raised |-> 0, fails |-> 0,
     last_error |-> NoError, func_value |-> 0,
     ran_init |-> "None", ran_after |-> NoError, steps |-> <<>>]

CtxCall(w, caller, phase) ==
    [CtxIdle EXCEPT !.pc = "loop", !.wrapper = w, !.caller = caller, !.phase = phase]

\* What the caller of the outermost operation received; takeover1 and takeover2
\* tell whether func or init() raised RequestHumanTakeover inside the wrapper
\* (inside the repeated capture of Device.screenshot() for takeover2), fallback
\* whether Device.screenshot() took its benchmark branch
OutNone ==
    [status |-> "none", value |-> 0, error |-> "none", cause |-> NoError,
     takeover1 |-> FALSE, takeover2 |-> FALSE, fallback |-> FALSE]

\* retry_wrapper running init() only before the first retry
callable_init_once(c) == c.init # "None" /\ c.inits = 0

\* callable(init)
callable_init(c) == c.init # "None"

\* an iteration that runs init() first and sleeps after it
init_then_sleep(runs_init, init_fails) ==
    IF ~runs_init THEN <<"func">>
    ELSE IF init_fails THEN <<"init">>
    ELSE <<"init", "sleep", "func">>

\* The body of the try block of retry_wrapper: time.sleep(retry_sleep(_)) and
\* init() when init is callable, then func; a raising init() ends the block
try_block(runs_init, init_fails) ==
    IF ~runs_init THEN <<"func">>
    ELSE IF init_fails THEN <<"sleep", "init">>
    ELSE <<"sleep", "init", "func">>

\* One iteration of the for loop of retry_wrapper, init() ending with io and
\* func with fo: the frame after it and how the iteration ended
retry_iteration(c, io, fo) ==
    LET runs_init   == callable_init(c)
        init_fails  == runs_init /\ io.type # "none"
        returns     == ~init_fails /\ fo.type = "return"
        raised      == IF init_fails THEN io ELSE fo
        c1          == [c EXCEPT !.ran_init = c.init,
                                 !.steps = try_block(runs_init, init_fails),
                                 !.ran_after = c.last_error,
                                 !.inits = @ + (IF runs_init THEN 1 ELSE 0),
                                 !.init_raised = @ + (IF init_fails THEN 1 ELSE 0),
                                 !.calls = @ + (IF init_fails THEN 0 ELSE 1)]
    IN  IF returns
        THEN [ctx |-> [c1 EXCEPT !.func_value = fo.value], end |-> "return"]
        ELSE LET h  == except_clause(c.wrapper, raised)
                 c2 == [c1 EXCEPT !.fails = @ + 1, !.last_error = raised]
             IN  IF h = "break"
                 THEN [ctx |-> c2, end |-> "raise"]
                 ELSE [ctx |-> [c2 EXCEPT !.init = h, !.i = @ + 1],
                       end |-> IF c.i + 1 < RETRY_TRIES THEN "continue" ELSE "raise"]

\* What retry_wrapper hands to its caller: the value of func, or the bare
\* RequestHumanTakeover raised after the loop
retry_outcome(r) ==
    IF r.end = "return" THEN "ok" ELSE "RequestHumanTakeover"

\* A direct call of a retry-wrapped method
RetryCall(w) ==
    /\ retry_ctx.pc \in {"idle", "done"}
    /\ retry_ctx' = CtxCall(w, "direct", 1)
    /\ retry_out' = OutNone
    /\ UNCHANGED <<deviceVars, now, timerVars, restVars>>

\* Device.screenshot() up to the first capture: stuck_record_check(), then the
\* retry-wrapped screenshot method is entered
ScreenshotCall(d, running) ==
    /\ retry_ctx.pc \in {"idle", "done"}
    /\ stuck_timer.reach_count < MaxCaptureCalls
    /\ \E c \in {stuck_record_check(d, running)} :
          /\ stuck_timer' = c.timer
          /\ stuck_obs' = IF c.error # "none" THEN ObsReset
                          ELSE IF c.ran THEN [stuck_obs EXCEPT !.polls = stuck_obs.polls + 1]
                          ELSE stuck_obs
          /\ last_op' = [NoOp EXCEPT !.device = d, !.after = last_op.error, !.op = "screenshot", !.ran = c.ran, !.app = c.app,
                                     !.error = c.error,
                                     !.elapsed = now - stuck_timer.current,
                                     !.polls = stuck_obs.polls + 1]
          /\ retry_ctx' = IF c.error # "none" THEN [CtxIdle EXCEPT !.pc = "done"]
                          ELSE CtxCall("adb", "Device.screenshot", 1)
          /\ retry_out' = IF c.error # "none"
                          THEN [OutNone EXCEPT !.status = "raised", !.error = c.error]
                          ELSE OutNone
    /\ UNCHANGED <<click_record, disabled, now, timerVars, restVars>>

\* One iteration of retry_wrapper and, when it ends the wrapper, the rest of
\* the caller: a direct caller receives the outcome; Device.screenshot() (lines
\* 150-158) receives it, and on a RequestHumanTakeover with
\* ascreencap_available false runs the benchmark and captures again
RetryAttempt(io, fo, avail) ==
    /\ retry_ctx.pc = "loop"
    /\ callable_init(retry_ctx) \/ io = NoError
    /\ io = NoError \/ fo = NoFunc
    /\ (retry_ctx.caller = "Device.screenshot" /\ retry_ctx.phase = 1) \/ avail
    /\ \E r \in {retry_iteration(retry_ctx, io, fo)} :
       LET inside == r.end = "raise" /\ r.ctx.last_error.type = "RequestHumanTakeover"
           seen   == IF retry_ctx.phase = 1
                     THEN [retry_out EXCEPT !.takeover1 = inside]
                     ELSE [retry_out EXCEPT !.takeover2 = inside]
           first  == IF retry_ctx.phase = 1 THEN retry_outcome(r)
                     ELSE "RequestHumanTakeover"
           again  == /\ retry_ctx.caller = "Device.screenshot"
                     /\ retry_ctx.phase = 1
                     /\ r.end = "raise" /\ ~avail
           final  == IF retry_ctx.caller = "Device.screenshot"
                     THEN screenshot_result(first, retry_ctx.phase = 1,
                                            retry_outcome(r))
                     ELSE retry_outcome(r)
       IN  IF r.end = "continue"
           THEN /\ retry_ctx' = r.ctx
                /\ retry_out' = retry_out
           ELSE IF again
           THEN /\ retry_ctx' = CtxCall(retry_ctx.wrapper, retry_ctx.caller, 2)
                /\ retry_out' = [seen EXCEPT !.fallback = TRUE]
           ELSE /\ retry_ctx' = [r.ctx EXCEPT !.pc = "done"]
                /\ retry_out' =
                      IF final = "ok"
                      THEN [seen EXCEPT !.status = "returned", !.value = r.ctx.func_value]
                      ELSE [seen EXCEPT !.status = "raised", !.error = final,
                                        !.cause = NoError]
    /\ UNCHANGED <<deviceVars, now, timerVars, restVars>>

----------------------------------------------------------------------------
(* module/device/method/adb.py: decoding a raw screencap *)

\* The four bytes of a uint32, least significant first, and their value
u32le(x) == <<x % 256, (x \div 256) % 256, (x \div 65536) % 256, (x \div 16777216) % 256>>
u32at(data, i) ==
    data[i] + 256 * data[i + 1] + 65536 * data[i + 2] + 16777216 * data[i + 3]

\* No correction rule
NoMethod == 3

\* A buffer before it is decoded: op names the decoder it is meant for; pointer
\* is ScreenshotComponent._bytepointer, start the value it had when the last
\* scan began and prefix the number of bytes in front of the token of data
\* method_fixed is Adb.__screenshot_method_fixed, order the value it had when
\* the last decode began and prev the rule that decode settled on (NoMethod when
\* it failed or there was none)
DecIdle == [op |-> "none", data |-> <<>>, out |-> [status |-> "none"],
            pointer |-> 0, start |-> 0, prefix |-> 0,
            method_fixed |-> <<0, 1, 2>>, order |-> <<>>, prev |-> NoMethod]

\* a slice that takes the n entries after the 12 bytes of the header
AfterHeaderN(s, n) ==
    IF n = 0 \/ n >= Len(s) THEN s
    ELSE SubSeq(s, 13, IF 12 + n < Len(s) THEN 12 + n ELSE Len(s))

\* image[-n:] of numpy: the last n entries, everything when n = 0 or n >= Len
LastN(s, n) ==
    IF n = 0 \/ n >= Len(s) THEN s ELSE SubSeq(s, Len(s) - n + 1, Len(s))

\* cv2.cvtColor(image, cv2.COLOR_BGRA2BGR): the fourth byte of every pixel goes
BGRA2BGR(s) ==
    LET keep == {i \in 1..Len(s) : i % 4 # 0}
        nth(k) == CHOOSE i \in keep : Cardinality({j \in keep : j < i}) = k - 1
    IN  [k \in 1..Cardinality(keep) |-> s[nth(k)]]

\* load_screencap(data): the image it returns or the exception it raises
\* (width * height * channel is a uint32 product; it does not wrap for the
\* sides up to MaxRawSide)
load_screencap(data) ==
    IF Len(data) < 12
    THEN [status |-> "ValueError"]
    ELSE LET width  == u32at(data, 1)
             height == u32at(data, 5)
             need   == width * height * 4
             image  == LastN(data, need)
         IN  IF Len(image) # height * width * 4
             THEN [status |-> "ImageTruncated"]
             ELSE [status |-> "image", height |-> height, width |-> width,
                   pixels |-> BGRA2BGR(image)]

\* The reply of screencap for a width x height screen, cut to len bytes; every
\* byte of a pixel is 255
RawScreencap(width, height, len) ==
    LET full == u32le(width) \o u32le(height) \o u32le(1)
                    \o [i \in 1..(width * height * 4) |-> 255]
    IN  SubSeq(full, 1, IF len < Len(full) THEN len ELSE Len(full))

LoadScreencap ==
    /\ dec.op = "load_screencap" /\ dec.out.status = "none"
    /\ dec' = [dec EXCEPT !.out = load_screencap(dec.data)]
    /\ UNCHANGED <<deviceVars, now, timerVars, retryVars, shotVars, nemuVars, mtVars, connVars>>

----------------------------------------------------------------------------
(* module/device/components/screenshot.py: the scan for the magic token *)

\* b'BMZ1'
BMZ1 == <<66, 77, 90, 49>>

\* byte_array[p:p + 4], p counted from 0
Slice4(data, p) ==
    SubSeq(data, p + 1, IF p + 4 < Len(data) THEN p + 4 ELSE Len(data))

\* The first pointer value from p on at which the while loop stops: the token
\* is there, or the next increment reaches len(byte_array)
ScanStop(data, p) ==
    LET last == IF p > Len(data) - 1 THEN p ELSE Len(data) - 1
        stops == {q \in p..last : Slice4(data, q) = BMZ1 \/ q + 1 >= Len(data)}
    IN  CHOOSE q \in stops : \A r \in stops : q <= r

\* _reposition_byte_pointer stepping before it compares
reposition_skip_first(data, p) ==
    LET q == ScanStop(data, p + 1)
    IN  IF Slice4(data, q) = BMZ1
        THEN [status |-> "ok", pointer |-> q]
        ELSE [status |-> "ScreenshotError", pointer |-> q + 1]

\* _reposition_byte_pointer without the test of the end of the buffer
reposition_unbounded(data, p) ==
    [status |-> "ok", pointer |-> ScanStop(data, p)]

\* ScreenshotComponent._reposition_byte_pointer(byte_array) entered with
\* self._bytepointer = p: the pointer it leaves, and whether it returns
\* byte_array[pointer:] or raises
_reposition_byte_pointer(data, p) ==
    LET q == ScanStop(data, p)
    IN  IF Slice4(data, q) = BMZ1
        THEN [status |-> "ok", pointer |-> q]
        ELSE [status |-> "ScreenshotError", pointer |-> q + 1]

\* The bytes aScreenCap sends: k bytes of a linker warning, the token, the block
AScreenCapReply(k, fill, block) == [i \in 1..k |-> fill] \o BMZ1 \o block

\* One decode of ScreenshotComponent up to the end of the scan
Reposition(k, fill, block) ==
    /\ dec.op = "reposition"
    /\ dec.pointer < MaxPointer
    /\ \E data \in {AScreenCapReply(k, fill, block)} :
       \E r \in {_reposition_byte_pointer(data, dec.pointer)} :
          dec' = [dec EXCEPT !.data = data, !.prefix = k, !.start = dec.pointer,
                             !.pointer = r.pointer,
                             !.out = [status |-> r.status,
                                      bytes |-> IF r.status = "ok"
                                                THEN SubSeq(data, r.pointer + 1, Len(data))
                                                ELSE <<>>]]
    /\ UNCHANGED <<deviceVars, now, timerVars, retryVars, shotVars, nemuVars, mtVars, connVars>>

\* One decode of ScreenshotComponent of a reply that was cut or replaced
RepositionCorrupted(data) ==
    /\ dec.op = "reposition"
    /\ dec.pointer < MaxPointer
    /\ \E r \in {_reposition_byte_pointer(data, dec.pointer)} :
          dec' = [dec EXCEPT !.data = data, !.prefix = Len(data),
                             !.start = dec.pointer,
                             !.pointer = r.pointer,
                             !.out = [status |-> r.status,
                                      bytes |-> IF r.status = "ok"
                                                THEN SubSeq(data, r.pointer + 1, Len(data))
                                                ELSE <<>>]]
    /\ UNCHANGED <<deviceVars, now, timerVars, retryVars, shotVars, nemuVars, mtVars, connVars>>

\* ScreenshotComponent.init_screenshot_tool(), line 109
InitScreenshotTool ==
    /\ dec.op = "reposition" /\ dec.out.status # "none"
    /\ dec' = [dec EXCEPT !.pointer = 0, !.out = [status |-> "none"]]
    /\ UNCHANGED <<deviceVars, now, timerVars, retryVars, shotVars, nemuVars, mtVars, connVars>>

----------------------------------------------------------------------------
(* module/device/method/adb.py: the correction of line endings *)

\* Adb.__screenshot_method
screenshot_method == <<0, 1, 2>>

CR == 13
LF == 10

\* Whether pat occurs in s at index i (from 1)
OccursAt(s, pat, i) ==
    /\ i + Len(pat) - 1 <= Len(s)
    /\ SubSeq(s, i, i + Len(pat) - 1) = pat

RECURSIVE replace_from(_, _, _, _)
\* bytes.replace(pat, new) on s[i:]: left to right, without overlap
replace_from(s, pat, new, i) ==
    IF i > Len(s) THEN <<>>
    ELSE IF OccursAt(s, pat, i)
    THEN new \o replace_from(s, pat, new, i + Len(pat))
    ELSE <<s[i]>> \o replace_from(s, pat, new, i + 1)

replace(s, pat, new) == replace_from(s, pat, new, 1)

\* The first bytes of every PNG file
PngSignature == <<137, 80, 78, 71, CR, LF, 26, LF>>

\* The files cv2.imdecode accepts: the signature and a body
PngBodies == {<<7>>, <<LF, 7>>, <<CR, LF>>}
PngFiles == {PngSignature \o body : body \in PngBodies}

\* cv2.imdecode(image, cv2.IMREAD_COLOR): None unless the bytes are an image file
imdecode(bytes) == IF bytes \in PngFiles THEN bytes ELSE <<>>

\* Adb.__load_screenshot(screenshot, method); the buffers decoded here do not
\* begin with the header of VMOS Pro
__load_screenshot(screenshot, method) ==
    LET fixed == IF method = 0 THEN screenshot
                 ELSE IF method = 1 THEN replace(screenshot, <<CR, LF>>, <<LF>>)
                 ELSE replace(screenshot, <<CR, CR, LF>>, <<LF>>)
        image == imdecode(fixed)
    IN  IF image = <<>>
        THEN [status |-> "ImageTruncated", image |-> <<>>]
        ELSE [status |-> "ok", image |-> image]

RECURSIVE try_methods(_, _, _)
\* The for loop of Adb.__process_screenshot from the i-th entry of methods on
try_methods(screenshot, methods, i) ==
    IF i > Len(methods)
    THEN [status |-> "OSError", image |-> <<>>, method |-> NoMethod,
          tried |-> methods, method_fixed |-> screenshot_method]
    ELSE LET result == __load_screenshot(screenshot, methods[i])
         IN  IF result.status = "ok"
             THEN [status |-> "ok", image |-> result.image, method |-> methods[i],
                   tried |-> SubSeq(methods, 1, i),
                   method_fixed |-> <<methods[i]>> \o screenshot_method]
             ELSE try_methods(screenshot, methods, i + 1)

\* Adb.__process_screenshot leaving the order it tried last in place on failure
process_screenshot_keeps_order(screenshot, methods) ==
    LET r == try_methods(screenshot, methods, 1)
    IN  IF r.status = "ok" THEN r ELSE [r EXCEPT !.method_fixed = methods]

\* Adb.__process_screenshot(screenshot) entered with
\* self.__screenshot_method_fixed = methods
__process_screenshot(screenshot, methods) == try_methods(screenshot, methods, 1)

\* What a transport in text mode makes of a file: rule 1 and rule 2 undo it
Mangle(file, mode) ==
    IF mode = 0 THEN file
    ELSE IF mode = 1 THEN replace(file, <<LF>>, <<CR, LF>>)
    ELSE replace(file, <<LF>>, <<CR, CR, LF>>)

\* The replies to `screencap -p`: files, mangled or not, and a cut one
ScreencapReplies ==
    {Mangle(file, mode) : file \in PngFiles, mode \in 0..2}
      \cup {SubSeq(PngSignature, 1, 4)}

\* One decode by Adb.__process_screenshot
ProcessScreenshot(screenshot) ==
    /\ dec.op = "process_screenshot"
    /\ \E r \in {__process_screenshot(screenshot, dec.method_fixed)} :
          dec' = [dec EXCEPT !.data = screenshot,
                             !.order = dec.method_fixed,
                             !.prev = IF dec.out.status = "none" THEN NoMethod
                                      ELSE dec.out.method,
                             !.method_fixed = r.method_fixed,
                             !.out = [status |-> r.status, image |-> r.image,
                                      method |-> r.method, tried |-> r.tried]]
    /\ UNCHANGED <<deviceVars, now, timerVars, retryVars, shotVars, nemuVars, mtVars, connVars>>

----------------------------------------------------------------------------
(* module/device/screenshot.py: the check for black frames *)

\* The colours of a pixel, and the frames of the reference region
PixelValues == {<<0, 0, 0>>, <<1, 0, 0>>, <<9, 9, 9>>}
Frames == [1..2 -> PixelValues]

RECURSIVE ColorTotal(_, _)
\* The sum of the three channels over the first n pixels of image
ColorTotal(image, n) ==
    IF n = 0 THEN 0
    ELSE image[n][1] + image[n][2] + image[n][3] + ColorTotal(image, n - 1)

\* sum(get_color(image, area)) < 1: the means of the channels add up to less than 1
sum_color_below_1(image) == ColorTotal(image, Len(image)) < Len(image)

\* A Screenshot object before its first capture: the configuration, the two
\* flags, self.image, and of the last call the frames captured, the helpers
\* called and what was returned
ShotIdle == [wsa |-> FALSE, method |-> "ADB", mumu |-> FALSE,
             size_checked |-> FALSE, black_checked |-> FALSE,
             image |-> <<>>, captured |-> <<>>, remedy |-> <<>>,
             out |-> [status |-> "none"]]

\* Screenshot.check_screen_size() for a frame of 1280 x 720
check_screen_size(s) == [ok |-> TRUE, s |-> [s EXCEPT !.size_checked = TRUE]]

\* Screenshot.check_screen_black(); displays are the answers of get_display_id()
check_screen_black(s, displays) ==
    IF s.black_checked THEN [ok |-> TRUE, s |-> s]
    ELSE IF sum_color_below_1(s.image)
    THEN IF s.wsa
         THEN IF displays[1] = 0 \/ displays[2] = 0
              THEN [ok |-> TRUE, s |-> s]
              ELSE [ok |-> FALSE,
                    s |-> [s EXCEPT !.remedy = @ \o <<"app_stop_uiautomator2">>]]
         ELSE IF s.method = "uiautomator2"
         THEN [ok |-> FALSE,
               s |-> [s EXCEPT !.remedy = @ \o <<"uninstall_minicap">>,
                               !.black_checked = FALSE]]
         ELSE [ok |-> FALSE,
               s |-> [s EXCEPT !.remedy = IF s.mumu /\ s.method = "DroidCast"
                                          THEN @ \o <<"droidcast_stop">> ELSE @,
                               !.black_checked = FALSE]]
    ELSE [ok |-> TRUE, s |-> [s EXCEPT !.black_checked = TRUE]]

\* One pass of the loop of Screenshot.screenshot(): the capture of frame, which
\* is upright, and the two checks
screenshot_pass(s, frame, displays) ==
    LET captured == [s EXCEPT !.image = frame, !.captured = @ \o <<frame>>]
        size == check_screen_size(captured)
    IN  IF size.ok THEN check_screen_black(size.s, displays)
        ELSE [ok |-> FALSE, s |-> size.s]

\* Whether check_screen_black() will ask for the display
AsksDisplay(s, frame) == s.wsa /\ ~s.black_checked /\ sum_color_below_1(frame)

\* Screenshot.screenshot(): at most two captures, then self.image is returned.
\* (The wait for the screenshot interval and the deque of saved frames are not
\* modelled.)
TakeScreenshot(frame1, frame2, displays1, displays2) ==
    /\ shot.method # "none"
    /\ LET entry == [shot EXCEPT !.captured = <<>>, !.remedy = <<>>]
           first == screenshot_pass(entry, frame1, displays1)
           final == IF first.ok THEN first.s
                    ELSE screenshot_pass(first.s, frame2, displays2).s
       IN  /\ first.ok => (frame2 = frame1 /\ displays2 = displays1)
           /\ ~AsksDisplay(entry, frame1) => displays1 = <<0, 0>>
           /\ (~first.ok /\ ~AsksDisplay(first.s, frame2)) => displays2 = <<0, 0>>
           /\ shot' = [final EXCEPT !.out = [status |-> "ok", image |-> final.image]]
    /\ UNCHANGED <<deviceVars, now, timerVars, retryVars, dec, nemuVars, mtVars, connVars>>

----------------------------------------------------------------------------
(* module/device/nemu_ipc/nemu_ipc.py: native calls on workers *)

\* The reply of a native call that has not returned when the timeout expires
TimedOut == -1

\* What a native call returns and prints: nemu_connect returns the connection
\* id or 0, the others 0 or an error code
\* A status below zero of a native call (a C int)
NegativeStatus == -2

StdErrs == {"", "error: 1783"}
Replies == [ret : {TimedOut, 0, 1, NegativeStatus}, stderr : StdErrs]
Resolutions == {<<1280, 720>>, <<720, 1280>>}

\* A NemuIpcImpl object after construction, without jobs and with an idle
\* caller. jobs are the _screenshot calls handed to the pool, waiting the job
\* whose result the caller awaits, native the native calls of the last step
\* with the thread that made them, out what the last call of the caller gave
\* and last what the last step of a worker did to the object.
NemuIdle == [connect_id |-> 0, width |-> 0, height |-> 0,
             jobs |-> <<>>, waiting |-> 0, native |-> {},
             out |-> [status |-> "none", job |-> 0],
             last |-> [job |-> 0, abandoned |-> FALSE, changed |-> FALSE]]

\* The test of run_func for an error code
IsErr(func, ret) ==
    IF func = "_screenshot" THEN FALSE
    ELSE IF func = "nemu_connect" THEN ret = 0
    ELSE ret > 0

\* CaptureNemuIpc.check_stderr() for what the repeated call printed
check_stderr(stderr) ==
    IF stderr = "error: 1783" THEN "NemuIpcIncompatible" ELSE "none"

\* NemuIpcImpl.run_func(func, on_thread=on_thread) of a native function, made
\* by thread; get_or_kill raises JobTimeout when the job has no result in time
run_func(func, reply, on_thread, thread) ==
    IF on_thread /\ reply.ret = TimedOut
    THEN [status |-> "JobTimeout", ret |-> 0,
          native |-> {[func |-> func, thread |-> "worker"]}]
    ELSE LET first == [func |-> func,
                       thread |-> IF on_thread THEN "worker" ELSE thread]
         IN  IF IsErr(func, reply.ret)
             THEN [status |-> IF check_stderr(reply.stderr) = "none" THEN "ok"
                              ELSE check_stderr(reply.stderr),
                   ret |-> reply.ret,
                   native |-> {first, [func |-> func, thread |-> thread]}]
             ELSE [status |-> "ok", ret |-> reply.ret, native |-> {first}]

\* NemuIpcImpl.connect(on_thread) with connect_id = 0, made by thread
connect(n, reply, on_thread, thread) ==
    LET r == IF on_thread THEN run_func("nemu_connect", reply, TRUE, thread)
             ELSE [status |-> "ok", ret |-> reply.ret,
                   native |-> {[func |-> "nemu_connect", thread |-> thread]}]
    IN  IF r.status # "ok"
        THEN [status |-> r.status, n |-> [n EXCEPT !.native = @ \cup r.native]]
        ELSE IF r.ret = 0
        THEN [status |-> "NemuIpcError", n |-> [n EXCEPT !.native = @ \cup r.native]]
        ELSE [status |-> "ok",
              n |-> [n EXCEPT !.native = @ \cup r.native, !.connect_id = r.ret]]

\* The start of an operation of the caller
CallerEntry == [nemu EXCEPT !.native = {},
                            !.last = [job |-> 0, abandoned |-> FALSE, changed |-> FALSE]]

\* Whether the caller is between two operations
CallerIdle == nemu.waiting = 0

\* NemuIpcImpl.screenshot() up to the wait for the job that runs _screenshot
StartScreenshot(creply) ==
    /\ CallerIdle
    /\ Len(nemu.jobs) < MaxJobs
    /\ nemu.connect_id # 0 => creply = [ret |-> 1, stderr |-> ""]
    /\ LET c == IF nemu.connect_id = 0 THEN connect(CallerEntry, creply, TRUE, "caller")
                ELSE [status |-> "ok", n |-> CallerEntry]
       IN  nemu' = IF c.status # "ok"
                   THEN [c.n EXCEPT !.out = [status |-> c.status, job |-> 0]]
                   ELSE [c.n EXCEPT !.jobs = @ \o <<[pc |-> "resolution",
                                                      abandoned |-> FALSE,
                                                      status |-> "running",
                                                      width |-> 0, height |-> 0]>>,
                                    !.waiting = Len(nemu.jobs) + 1,
                                    !.out = [status |-> "waiting", job |-> 0]]
    /\ UNCHANGED <<deviceVars, now, timerVars, retryVars, dec, shotVars, mtVars, connVars>>

\* What a step of the worker of job j leaves in the object
WorkerStep(j, n) ==
    [n EXCEPT !.last = [job |-> j, abandoned |-> nemu.jobs[j].abandoned,
                        changed |-> <<n.connect_id, n.width, n.height>>
                                      # <<nemu.connect_id, nemu.width, nemu.height>>]]

\* NemuIpcImpl._screenshot() on its worker, lines 412-414: connect if there is
\* no connection, then get_resolution(on_thread=False)
WorkerResolution(j, creply, reply, res) ==
    /\ j \in 1..Len(nemu.jobs)
    /\ nemu.jobs[j].pc = "resolution"
    /\ creply.ret # TimedOut /\ reply.ret # TimedOut
    /\ nemu.connect_id # 0 => creply = [ret |-> 1, stderr |-> ""]
    /\ LET entry == [nemu EXCEPT !.native = {}]
           c == IF nemu.connect_id = 0 THEN connect(entry, creply, FALSE, "worker")
                ELSE [status |-> "ok", n |-> entry]
           r == run_func("nemu_capture_display", reply, FALSE, "worker")
           failed(n, status) ==
               [n EXCEPT !.jobs[j].pc = "done", !.jobs[j].status = status]
       IN  /\ (c.status # "ok" \/ reply.ret > 0) => res = <<1280, 720>>
           /\ c.status # "ok" => reply = [ret |-> 0, stderr |-> ""]
           /\ nemu' = WorkerStep(j,
                 IF c.status # "ok" THEN failed(c.n, c.status)
                 ELSE IF r.status # "ok"
                 THEN failed([c.n EXCEPT !.native = @ \cup r.native], r.status)
                 ELSE IF r.ret > 0
                 THEN failed([c.n EXCEPT !.native = @ \cup r.native], "NemuIpcError")
                 ELSE [c.n EXCEPT !.native = @ \cup r.native,
                                  !.width = res[1], !.height = res[2],
                                  !.jobs[j].pc = "capture"])
    /\ UNCHANGED <<deviceVars, now, timerVars, retryVars, dec, shotVars, mtVars, connVars>>

\* NemuIpcImpl._screenshot() on its worker, lines 416-428: the capture into a
\* buffer of self.width * self.height * 4 bytes
WorkerCapture(j, ret) ==
    /\ j \in 1..Len(nemu.jobs)
    /\ nemu.jobs[j].pc = "capture"
    /\ ret \in {0, 1}
    /\ nemu' = WorkerStep(j,
          [nemu EXCEPT !.native = {[func |-> "nemu_capture_display", thread |-> "worker"]},
                       !.jobs[j].pc = "done",
                       !.jobs[j].status = IF ret > 0 THEN "NemuIpcError" ELSE "ok",
                       !.jobs[j].width = nemu.width,
                       !.jobs[j].height = nemu.height])
    /\ UNCHANGED <<deviceVars, now, timerVars, retryVars, dec, shotVars, mtVars, connVars>>

\* job.get_or_kill(timeout) with the job done in time, and the rest of
\* NemuIpcImpl.screenshot(): the buffer is reshaped to (self.height, self.width, 4)
JobResult ==
    /\ nemu.waiting # 0
    /\ nemu.jobs[nemu.waiting].pc = "done"
    /\ LET job == nemu.jobs[nemu.waiting]
       IN  nemu' = [CallerEntry EXCEPT
               !.waiting = 0,
               !.out = IF job.status # "ok"
                       THEN [status |-> job.status, job |-> nemu.waiting]
                       ELSE IF job.width * job.height # nemu.width * nemu.height
                       THEN [status |-> "ValueError", job |-> nemu.waiting]
                       ELSE [status |-> "ok", job |-> nemu.waiting,
                             width |-> nemu.width, height |-> nemu.height]]
    /\ UNCHANGED <<deviceVars, now, timerVars, retryVars, dec, shotVars, mtVars, connVars>>

\* job.get_or_kill(timeout) with no result in time: the job is abandoned and
\* JobTimeout leaves screenshot()
JobTimeout ==
    /\ nemu.waiting # 0
    /\ nemu.jobs[nemu.waiting].pc # "done"
    /\ nemu' = [CallerEntry EXCEPT !.waiting = 0,
                                   !.jobs[nemu.waiting].abandoned = TRUE,
                                   !.out = [status |-> "JobTimeout", job |-> nemu.waiting]]
    /\ UNCHANGED <<deviceVars, now, timerVars, retryVars, dec, shotVars, mtVars, connVars>>

\* NemuIpcImpl.up()
Up(creply, reply) ==
    /\ CallerIdle
    /\ nemu.connect_id # 0 => creply = [ret |-> 1, stderr |-> ""]
    /\ LET c == IF nemu.connect_id = 0 THEN connect(CallerEntry, creply, TRUE, "caller")
                ELSE [status |-> "ok", n |-> CallerEntry]
           r == run_func("nemu_input_event_touch_up", reply, TRUE, "caller")
       IN  /\ c.status # "ok" => reply = [ret |-> 0, stderr |-> ""]
           /\ nemu' = IF c.status # "ok"
                       THEN [c.n EXCEPT !.out = [status |-> c.status, job |-> 0]]
                       ELSE [c.n EXCEPT !.native = @ \cup r.native,
                                        !.out = [status |-> IF r.status # "ok" THEN r.status
                                                            ELSE IF r.ret > 0 THEN "NemuIpcError"
                                                            ELSE "ok",
                                                 job |-> 0,
                                                 func |-> "nemu_input_event_touch_up",
                                                 ret |-> reply.ret]]
    /\ UNCHANGED <<deviceVars, now, timerVars, retryVars, dec, shotVars, mtVars, connVars>>

\* NemuIpcImpl.disconnect()
Disconnect(reply) ==
    /\ CallerIdle
    /\ nemu.connect_id # 0
    /\ LET r == run_func("nemu_disconnect", reply, TRUE, "caller")
       IN  nemu' = [CallerEntry EXCEPT
               !.native = r.native,
               !.connect_id = IF r.status = "ok" THEN 0 ELSE @,
               !.out = [status |-> r.status, job |-> 0]]
    /\ UNCHANGED <<deviceVars, now, timerVars, retryVars, dec, shotVars, mtVars, connVars>>

----------------------------------------------------------------------------
(* module/device/method/maatouch.py: the builder, its stream and the pre-warm *)

\* self._maatouch_orientation = None
NoOrientation == -1
Orientations == {0, 1}

\* A MaaTouch object after the class statement, before Device.__init__ has
\* finished. Runs of maatouch_init are numbered from 1; the builder and the
\* stream a run makes carry its number. cached is the builder in
\* __dict__['_maatouch_builder'] and stream is _maatouch_stream (0: none).
MtIdle == [constructed |-> FALSE,
           cached |-> 0, stream |-> 0, closed |-> {},
           init_thread |-> 0, threads |-> <<>>, runs |-> <<>>,
           orientation |-> 0, maatouch_orientation |-> NoOrientation,
           op |-> [pc |-> "idle", i |-> 0, init |-> "None"],
           clicks |-> 0, events |-> 0, transmitted |-> {}, returned |-> {},
           lost_streams |-> {}, lost_builders |-> {}, stale |-> {},
           sent |-> [status |-> "none"], out |-> "none"]

\* An exception of the class named by type, as the except clauses see it
ErrorOf(type) == [type |-> type, adb |-> FALSE, host |-> FALSE, value |-> 0]

\* The threads that have not left early_maatouch_init_func
Running(m) == {t \in 1..Len(m.threads) : m.threads[t].pc \in {"start", "shell"}}

\* MaaTouch.early_maatouch_init()
early_maatouch_init(m) ==
    IF m.cached # 0 THEN m
    ELSE [m EXCEPT !.threads = Append(@, [pc |-> "start", run |-> 0, tries |-> 0]),
                   !.init_thread = Len(m.threads) + 1]

\* MaaTouch.maatouch_init(), lines 224-236: the old stream is closed and
\* forgotten, the orientation o of the device is read and kept
maatouch_init_orientation(m, o) ==
    [m EXCEPT !.closed = IF m.stream # 0 THEN @ \cup {m.stream} ELSE @,
              !.stream = 0,
              !.orientation = o,
              !.maatouch_orientation = o,
              !.runs = Append(@, [orientation |-> o, launched |-> FALSE,
                                  batch |-> <<>>])]

\* MaaTouch.maatouch_init(), lines 238-293, of run r: the stream of the new
\* server is kept; a server that answers "Aborted" has its stream closed
maatouch_init_stream(m, r, installed) ==
    [m EXCEPT !.stream = r,
              !.runs[r].launched = TRUE,
              !.closed = IF installed THEN @ ELSE @ \cup {r}]

\* Device.__init__, lines 92-95, for the control method MaaTouch
DeviceInit ==
    /\ ~mt.constructed
    /\ mt' = [early_maatouch_init(mt) EXCEPT !.constructed = TRUE]
    /\ UNCHANGED <<deviceVars, now, timerVars, retryVars, dec, shotVars, nemuVars, connVars>>

\* The pre-warm thread t inside _maatouch_builder, up to line 236 of maatouch_init
ThreadOrientation(t, o) ==
    /\ t \in 1..Len(mt.threads)
    /\ mt.threads[t].pc = "start"
    /\ Len(mt.runs) < MaxInits
    /\ mt' = [maatouch_init_orientation(mt, o) EXCEPT
                 !.threads[t].pc = "shell",
                 !.threads[t].run = Len(mt.runs) + 1]
    /\ UNCHANGED <<deviceVars, now, timerVars, retryVars, dec, shotVars, nemuVars, connVars>>

\* The pre-warm thread t from line 238 of maatouch_init on: with a server that
\* answers, _maatouch_builder returns and the builder is cached; with
\* MaaTouchNotInstalledError its retry installs, drops the cached builder and
\* tries again, RETRY_TRIES times in all
ThreadStream(t, installed) ==
    /\ t \in 1..Len(mt.threads)
    /\ mt.threads[t].pc = "shell"
    /\ LET r == mt.threads[t].run
           m == maatouch_init_stream(mt, r, installed)
       IN  mt' = IF installed
                 THEN [m EXCEPT !.cached = r, !.threads[t].pc = "done"]
                 ELSE IF mt.threads[t].tries + 1 < RETRY_TRIES
                 THEN [m EXCEPT !.cached = 0,
                                !.threads[t].pc = "start",
                                !.threads[t].tries = @ + 1]
                 ELSE [m EXCEPT !.threads[t].pc = "dead"]
    /\ UNCHANGED <<deviceVars, now, timerVars, retryVars, dec, shotVars, nemuVars, connVars>>

\* on_orientation_change_maatouch() leaving the builder in place
on_orientation_change_keeps_builder(m) == m

\* MaaTouch.on_orientation_change_maatouch()
on_orientation_change_maatouch(m) ==
    IF m.maatouch_orientation = NoOrientation THEN m
    ELSE IF m.orientation = m.maatouch_orientation THEN m
    ELSE early_maatouch_init([m EXCEPT !.cached = 0])

\* Device.get_orientation(): Connection.get_orientation() reads o, then
\* on_orientation_change_maatouch(). The servers launched before a change was
\* seen are noted as stale.
GetOrientation(o) ==
    /\ mt.constructed /\ mt.op.pc = "idle"
    /\ Len(mt.threads) < MaxThreads
    /\ LET m == [mt EXCEPT !.orientation = o,
                           !.stale = IF mt.maatouch_orientation \notin {NoOrientation, o}
                                     THEN {r \in 1..Len(mt.runs) : mt.runs[r].launched}
                                     ELSE @]
       IN  mt' = on_orientation_change_maatouch(m)
    /\ UNCHANGED <<deviceVars, now, timerVars, retryVars, dec, shotVars, nemuVars, connVars>>

\* A call of the retry-wrapped click_maatouch()
ClickCall ==
    /\ mt.constructed /\ mt.op.pc = "idle"
    /\ mt.clicks < MaxClicks
    /\ mt' = [mt EXCEPT !.op = [pc |-> "running", i |-> 0, init |-> "None"],
                        !.clicks = @ + 1,
                        !.out = "none"]
    /\ UNCHANGED <<deviceVars, now, timerVars, retryVars, dec, shotVars, nemuVars, connVars>>

\* The end of an iteration of retry_wrapper that caught an exception of class type
retry_caught(m, type) ==
    LET init == retry_maatouch(ErrorOf(type))
    IN  IF init = "break" \/ m.op.i + 1 >= RETRY_TRIES
        THEN [m EXCEPT !.op = [pc |-> "idle", i |-> 0, init |-> "None"],
                       !.out = "RequestHumanTakeover"]
        ELSE [m EXCEPT !.op.i = @ + 1, !.op.init = init]

\* The exceptions of sendall() and recv() on a stream that was lost
TransportLoss == {"ConnectionResetError", "ConnectionAbortedError", "BrokenPipeError"}

\* What a send meets: nothing, or an exception in sendall() or in recv()
SendOutcomes ==
    {[at |-> "none", error |-> "none"],
     [at |-> "sendall", error |-> "BrokenPipeError"],
     [at |-> "sendall", error |-> "Exception"],
     [at |-> "recv", error |-> "ConnectionResetError"],
     [at |-> "recv", error |-> "Exception"]}

\* CommandBuilder: an event and its commit are added to the batch
commit(batch, event) == Append(batch, event)

\* CommandBuilder.clear()
builder_clear(batch) == <<>>

\* builder.down(x, y).commit(), builder.up().commit() and builder.send() on
\* builder b, that is maatouch_send(builder)
click_and_send(m, b, outcome) ==
    LET batch == commit(commit(m.runs[b].batch, m.events + 1), m.events + 2)
        committed == [m EXCEPT !.runs[b].batch = batch, !.events = @ + 2]
        content == {batch[k] : k \in 1..Len(batch)}
        record == [status |-> IF outcome.at = "none" THEN "returned" ELSE "raised",
                   stream |-> m.stream, builder |-> b, content |-> content,
                   repeats |-> content \cap m.transmitted,
                   reused |-> m.stream \in m.lost_streams \/ b \in m.lost_builders,
                   running |-> Running(m),
                   returned_before |-> content \cap m.returned,
                   stale |-> m.stream \in m.stale,
                   at_start |-> m.runs[b].batch]
    IN  IF outcome.at = "sendall"
        THEN retry_caught(
               [committed EXCEPT !.sent = record,
                                 !.lost_streams = IF outcome.error \in TransportLoss
                                                  THEN @ \cup {m.stream} ELSE @,
                                 !.lost_builders = IF outcome.error \in TransportLoss
                                                   THEN @ \cup {b} ELSE @],
               outcome.error)
        ELSE IF outcome.at = "recv"
        THEN retry_caught(
               [committed EXCEPT !.sent = record,
                                 !.transmitted = @ \cup content,
                                 !.lost_streams = IF outcome.error \in TransportLoss
                                                  THEN @ \cup {m.stream} ELSE @,
                                 !.lost_builders = IF outcome.error \in TransportLoss
                                                   THEN @ \cup {b} ELSE @],
               outcome.error)
        ELSE [committed EXCEPT !.sent = record,
                               !.transmitted = @ \cup content,
                               !.returned = @ \cup content,
                               !.runs[b].batch = builder_clear(batch),
                               !.op = [pc |-> "idle", i |-> 0, init |-> "None"],
                               !.out = "ok"]

\* One iteration of retry_wrapper around click_maatouch(): init(), then
\* maatouch_builder, which joins the pre-warm thread and initialises on this
\* thread when no builder is cached, then the two events and the send
ClickAttempt(init_raises, o, installed, outcome) ==
    /\ mt.op.pc = "running"
    /\ mt.init_thread # 0 => mt.threads[mt.init_thread].pc \in {"done", "dead"}
    /\ LET after_init == IF mt.op.init \in {"None", "pass"} \/ init_raises THEN mt
                         ELSE [mt EXCEPT !.cached = 0]
           joined == [after_init EXCEPT !.init_thread = 0]
           needs_init == joined.cached = 0
           r == Len(mt.runs) + 1
           inited == IF needs_init
                     THEN maatouch_init_stream(maatouch_init_orientation(joined, o),
                                               r, installed)
                     ELSE joined
           b == IF needs_init THEN r ELSE joined.cached
           usable == inited.stream # 0 /\ inited.stream \notin inited.closed
       IN  /\ init_raises => mt.op.init \notin {"None", "pass", "del_maatouch_builder"}
           /\ needs_init /\ ~init_raises => Len(mt.runs) < MaxInits
           /\ (init_raises \/ ~needs_init) => (o = 0 /\ installed)
           /\ (init_raises \/ ~installed) => outcome = [at |-> "none", error |-> "none"]
           /\ (~init_raises /\ installed /\ ~usable)
                => outcome = [at |-> "sendall", error |-> "Exception"]
           /\ mt' = IF init_raises THEN retry_caught(mt, "Exception")
                     ELSE IF ~installed
                     THEN [inited EXCEPT !.op = [pc |-> "idle", i |-> 0, init |-> "None"],
                                         !.out = "RequestHumanTakeover"]
                     ELSE click_and_send([inited EXCEPT !.cached = b], b, outcome)
    /\ UNCHANGED <<deviceVars, now, timerVars, retryVars, dec, shotVars, nemuVars, connVars>>

\* A Connection object; its fields are given with its operations
\* self.serial, and the serial of another device on the same adb server
ThisSerial == 1
Serials == {ThisSerial, 2}

\* remote addresses, and local addresses: tcp:<port> or another kind of socket
Remotes == {1, 2}
TcpLocals == [tcp : {TRUE}, port : 1..MaxPort]
Locals == TcpLocals \cup {[tcp |-> FALSE, port |-> 1]}

\* self._serial = None
NoSerial == 0

\* The DeviceManager after __init__: no serial, no resources, a monitor
\* without thread, no cached adb_client; out is what its last call gave
ManagerIdle == [serial |-> NoSerial, resources |-> 0, monitor_thread |-> FALSE,
                adb_client |-> FALSE, out |-> [op |-> "none"]]

\* DeviceManager.disconnect_device(): the monitor is stopped and joined, the
\* resources are released (their errors are logged), the serial is forgotten
disconnect_device(m) ==
    IF m.serial = NoSerial THEN m
    ELSE [m EXCEPT !.monitor_thread = FALSE, !.resources = 0,
                   !.serial = NoSerial]

\* The steps at which connect_device can raise
ConnectOutcomes == {"ok", "ValueError", "_init_connection", "_monitor.start"}

\* DeviceManager.connect_device(serial): outcome is the step at which the
\* call raises, "ValueError" when is_valid_serial rejects the revised serial
connect_device(m, serial, outcome) ==
    LET d == disconnect_device(m)
    IN  IF outcome = "ValueError" THEN d
        ELSE IF outcome = "_init_connection" THEN [d EXCEPT !.serial = serial]
        ELSE IF outcome = "_monitor.start"
        THEN [d EXCEPT !.serial = serial, !.adb_client = TRUE]
        ELSE [d EXCEPT !.serial = serial, !.adb_client = TRUE,
                       !.monitor_thread = TRUE]

\* the test at the head of the operations that need a device
requires_device(m) ==
    IF m.serial = NoSerial THEN "not connected" ELSE "device"

ConnectDevice(serial, outcome) ==
    /\ conn' = [conn EXCEPT !.manager =
                   [connect_device(@, serial, outcome) EXCEPT
                       !.out = [op |-> "connect_device",
                                raised |-> outcome # "ok",
                                at |-> outcome]]]
    /\ UNCHANGED <<deviceVars, now, timerVars, retryVars, dec, shotVars, nemuVars, mtVars>>

DisconnectDevice ==
    /\ conn' = [conn EXCEPT !.manager =
                   [disconnect_device(@) EXCEPT
                       !.out = [op |-> "disconnect_device"]]]
    /\ UNCHANGED <<deviceVars, now, timerVars, retryVars, dec, shotVars, nemuVars, mtVars>>

\* DeviceManager.add_resource(resource)
AddResource ==
    /\ conn.manager.resources < MaxResources
    /\ conn' = [conn EXCEPT !.manager.resources = @ + 1,
                            !.manager.out = [op |-> "add_resource"]]
    /\ UNCHANGED <<deviceVars, now, timerVars, retryVars, dec, shotVars, nemuVars, mtVars>>

\* DeviceManager.get_device_info(), adb_forward(), ... up to the test of the
\* serial
ManagerOperation ==
    /\ conn' = [conn EXCEPT !.manager.out =
                   [op |-> "operation",
                    result |-> requires_device(conn.manager),
                    after_failed_connect |->
                        /\ conn.manager.out.op = "connect_device"
                        /\ conn.manager.out.raised]]
    /\ UNCHANGED <<deviceVars, now, timerVars, retryVars, dec, shotVars, nemuVars, mtVars>>

\* the cached values of a Connection, and the fields of a DeviceConnection
ConnectionNames == {"cpu_abi", "sdk_ver", "hermit_session",
                    "droidcast_session", "_minitouch_builder",
                    "_maatouch_builder", "reverse_server",
                    "_nc_server_host_port"}
DeviceConnectionNames == {"_device_id", "_cpu_abi", "_sdk_ver"}

\* a value that is not cached: cached values carry the number of the
\* connection (1 at first, one more after every reconnect) they came from
NotCached == 0

\* no remediation has run yet: kind is the last remediation, runs how many
\* times it ran in succession, once and twice the session after its first and
\* after its latest run, error what the latest run raised
RemedyNone == [kind |-> "none", runs |-> 0, error |-> "none"]

\* pushed holds the helper files that were pushed to the device
ConnIdle == [forwards |-> <<>>, reverses |-> <<>>, ret |-> [op |-> "none"],
             connection |-> 1,
             cache |-> [n \in ConnectionNames |-> NotCached],
             device_connection |-> 1,
             fields |-> [n \in DeviceConnectionNames |-> NotCached],
             served |-> [name |-> "none"],
             manager |-> ManagerIdle,
             pushed |-> {},
             remedy |-> RemedyNone]

\* cached_property.__get__: the cached value, or a newly resolved one
cached_get(cache, name, connection) ==
    IF cache[name] # NotCached THEN cache
    ELSE [cache EXCEPT ![name] = connection]

\* Connection.reverse_server: drops _nc_server_host_port and resolves it again
reverse_server(cache, connection) ==
    IF cache["reverse_server"] # NotCached THEN cache
    ELSE [cache EXCEPT !["_nc_server_host_port"] = connection,
                       !["reverse_server"] = connection]

\* Connection.release_resource()
release_resource(cache) ==
    [n \in ConnectionNames |->
        IF n \in {"hermit_session", "droidcast_session", "_minitouch_builder",
                  "_maatouch_builder", "reverse_server"}
        THEN NotCached ELSE cache[n]]

\* a read of one cached value of the Connection; _nc_server_host_port is
\* read by reverse_server and adb_shell_nc only
Get(name) ==
    /\ name # "_nc_server_host_port"
    /\ LET cache == IF name = "reverse_server"
                    THEN reverse_server(conn.cache, conn.connection)
                    ELSE cached_get(conn.cache, name, conn.connection)
       IN  conn' = [conn EXCEPT !.cache = cache,
                               !.served = [name |-> name,
                                           from |-> cache[name],
                                           current |-> conn.connection]]
    /\ UNCHANGED <<deviceVars, now, timerVars, retryVars, dec, shotVars, nemuVars, mtVars>>

\* Connection.adb_shell_nc(): reads reverse_server, then nc_command and
\* _nc_server_host_port[2:]
AdbShellNc ==
    /\ LET cache == cached_get(reverse_server(conn.cache, conn.connection),
                               "_nc_server_host_port", conn.connection)
       IN  conn' = [conn EXCEPT !.cache = cache,
                               !.served = [name |-> "_nc_server_host_port",
                                           from |-> cache["_nc_server_host_port"],
                                           current |-> conn.connection]]
    /\ UNCHANGED <<deviceVars, now, timerVars, retryVars, dec, shotVars, nemuVars, mtVars>>

\* Connection.adb_reconnect(): adb_restart() when no device is listed and
\* Emulator_AdbRestart is set, adb_disconnect() otherwise, both of which call
\* release_resource(); then adb_connect() and detect_device()
AdbReconnect ==
    /\ conn.connection <= MaxReconnects
    /\ conn' = [conn EXCEPT !.connection = @ + 1,
                            !.cache = release_resource(@),
                            !.served = [name |-> "none"]]
    /\ UNCHANGED <<deviceVars, now, timerVars, retryVars, dec, shotVars, nemuVars, mtVars>>

\* a read of DeviceConnection.device_id, cpu_abi or sdk_ver
DeviceConnectionGet(name) ==
    /\ LET fields == cached_get(conn.fields, name, conn.device_connection)
       IN  conn' = [conn EXCEPT !.fields = fields,
                               !.served = [name |-> name,
                                           from |-> fields[name],
                                           current |-> conn.device_connection]]
    /\ UNCHANGED <<deviceVars, now, timerVars, retryVars, dec, shotVars, nemuVars, mtVars>>

\* DeviceConnection.reconnect(): disconnect() forgets _device_id, then
\* connect(self.device_id) resolves it again and keeps it
DeviceConnectionReconnect ==
    /\ conn.device_connection <= MaxReconnects
    /\ conn' = [conn EXCEPT !.device_connection = @ + 1,
                            !.fields["_device_id"] = conn.device_connection + 1,
                            !.served = [name |-> "none"]]
    /\ UNCHANGED <<deviceVars, now, timerVars, retryVars, dec, shotVars, nemuVars, mtVars>>

\* the local addresses listed by forward_list() / reverse_list()
LocalsOf(list) == {list[i].local : i \in 1..Len(list)}

\* Connection.adb_forward_remove(local): killforward of this serial's forward
adb_forward_remove(forwards, local) ==
    SelectSeq(forwards, LAMBDA f : ~(f.serial = ThisSerial /\ f.local = local))

\* the for loop of adb_forward over forward_list(): the first tcp forward of
\* (serial, remote) gives the port, every later one is removed
RECURSIVE forward_loop(_, _, _, _)
forward_loop(list, i, remote, acc) ==
    IF i > Len(list) THEN acc
    ELSE IF /\ list[i].serial = ThisSerial
            /\ list[i].remote = remote
            /\ list[i].local.tcp
    THEN IF acc.port = 0
         THEN forward_loop(list, i + 1, remote,
                           [acc EXCEPT !.port = list[i].local.port])
         ELSE forward_loop(list, i + 1, remote,
                           [acc EXCEPT !.forwards =
                                adb_forward_remove(@, list[i].local)])
    ELSE forward_loop(list, i + 1, remote, acc)

\* adb_forward() that leaves the redundant forwards in place
adb_forward_keeps_redundant(forwards, remote, random) ==
    LET r == forward_loop(forwards, 1, remote, [port |-> 0, forwards |-> forwards])
    IN  IF r.port # 0 THEN [r EXCEPT !.forwards = forwards]
        ELSE [port |-> random,
              forwards |-> Append(forwards,
                  [serial |-> ThisSerial,
                   local |-> [tcp |-> TRUE, port |-> random],
                   remote |-> remote])]

\* Connection.adb_forward(remote); random is the port random_port() returns
adb_forward(forwards, remote, random) ==
    LET r == forward_loop(forwards, 1, remote, [port |-> 0, forwards |-> forwards])
    IN  IF r.port # 0 THEN r
        ELSE [port |-> random,
              forwards |-> Append(forwards,
                  [serial |-> ThisSerial,
                   local |-> [tcp |-> TRUE, port |-> random],
                   remote |-> remote])]

\* the for loop of adb_reverse over reverse_list(): the first tcp reverse of
\* remote gives the port; for every later one adb_forward_remove(reverse.local)
\* is called, which kills a forward of that local address if there is one
RECURSIVE reverse_loop(_, _, _, _)
reverse_loop(list, i, remote, acc) ==
    IF i > Len(list) THEN acc
    ELSE IF list[i].remote = remote /\ list[i].local.tcp
    THEN IF acc.port = 0
         THEN reverse_loop(list, i + 1, remote,
                           [acc EXCEPT !.port = list[i].local.port])
         ELSE reverse_loop(list, i + 1, remote,
                           [acc EXCEPT !.forwards =
                                adb_forward_remove(@, list[i].local)])
    ELSE reverse_loop(list, i + 1, remote, acc)

\* Connection.adb_reverse(remote)
adb_reverse(forwards, reverses, remote, random) ==
    LET r == reverse_loop(reverses, 1, remote,
                          [port |-> 0, forwards |-> forwards])
    IN  IF r.port # 0
        THEN [port |-> r.port, forwards |-> r.forwards, reverses |-> reverses]
        ELSE [port |-> random, forwards |-> r.forwards,
              reverses |-> Append(reverses,
                  [local |-> [tcp |-> TRUE, port |-> random],
                   remote |-> remote])]

\* the tcp forwards of (self.serial, remote), and the tcp reverses of remote
ForwardsTo(forwards, remote) ==
    {i \in 1..Len(forwards) : /\ forwards[i].serial = ThisSerial
                              /\ forwards[i].remote = remote
                              /\ forwards[i].local.tcp}
ReversesTo(reverses, remote) ==
    {i \in 1..Len(reverses) : reverses[i].remote = remote /\ reverses[i].local.tcp}

\* random_port(): a port of the range that nothing listens on
FreePorts == {q \in 1..MaxPort :
                [tcp |-> TRUE, port |-> q] \notin
                    LocalsOf(conn.forwards) \cup LocalsOf(conn.reverses)}

\* a forward made outside this call (an earlier run, another tool): it shows
\* up at the end of adb.forward_list()
ForwardListed(serial, local, remote) ==
    /\ Len(conn.forwards) < MaxForwards
    /\ local \notin LocalsOf(conn.forwards)
    /\ conn' = [conn EXCEPT !.forwards = Append(@, [serial |-> serial,
                                local |-> local, remote |-> remote]),
                            !.ret = [op |-> "none"]]
    /\ UNCHANGED <<deviceVars, now, timerVars, retryVars, dec, shotVars, nemuVars, mtVars>>

\* a reverse made outside this call: it shows up in adb.reverse_list()
ReverseListed(local, remote) ==
    /\ Len(conn.reverses) < MaxReverses
    /\ local \notin LocalsOf(conn.reverses)
    /\ conn' = [conn EXCEPT !.reverses = Append(@, [local |-> local,
                                                    remote |-> remote]),
                            !.ret = [op |-> "none"]]
    /\ UNCHANGED <<deviceVars, now, timerVars, retryVars, dec, shotVars, nemuVars, mtVars>>

\* a call of adb_forward(remote) that returns
AdbForward(remote, random) ==
    /\ random \in FreePorts \/ (FreePorts = {} /\ ForwardsTo(conn.forwards, remote) # {})
    /\ LET r == adb_forward(conn.forwards, remote, random)
       IN  conn' = [conn EXCEPT !.forwards = r.forwards,
                               !.ret = [op |-> "adb_forward", remote |-> remote,
                                        port |-> r.port,
                                        before |-> conn.forwards]]
    /\ UNCHANGED <<deviceVars, now, timerVars, retryVars, dec, shotVars, nemuVars, mtVars>>

\* a call of adb_reverse(remote) that returns
AdbReverse(remote, random) ==
    /\ random \in FreePorts \/ (FreePorts = {} /\ ReversesTo(conn.reverses, remote) # {})
    /\ LET r == adb_reverse(conn.forwards, conn.reverses, remote, random)
       IN  conn' = [conn EXCEPT !.forwards = r.forwards,
                               !.reverses = r.reverses,
                               !.ret = [op |-> "adb_reverse", remote |-> remote,
                                        port |-> r.port]]
    /\ UNCHANGED <<deviceVars, now, timerVars, retryVars, dec, shotVars, nemuVars, mtVars>>

----------------------------------------------------------------------------
(* Initial states *)

InitDevice ==
    /\ click_record = <<>>
    /\ stuck_timer = start(TimerNew(STUCK_LIMIT, STUCK_COUNT), ClockStart)
    /\ stuck_obs = ObsReset
    /\ disabled = [d \in Devices |-> FALSE]
    /\ now = ClockStart
    /\ last_op = NoOp

InitTimerIdle ==
    /\ timer = TimerNew(STUCK_LIMIT, STUCK_COUNT)
    /\ timer_obs = [since |-> 0 - 1, polls |-> 0, touched |-> FALSE, cadence |-> "broken",
                    poll |-> [state |-> "none", result |-> FALSE, elapsed |-> 0,
                              polls |-> 0, cadence |-> "broken"]]

InitRetryIdle ==
    /\ retry_ctx = CtxIdle
    /\ retry_out = OutNone

InitRestIdle ==
    /\ dec = DecIdle
    /\ shot = ShotIdle
    /\ nemu = NemuIdle
    /\ mt = MtIdle
    /\ conn = ConnIdle

----------------------------------------------------------------------------
(* The click record under control operations on plain buttons *)

ClickDevices == {1}

\* swipe() and drag() record their default names, multi_click() its button
NextClickPlain ==
    \/ \E d \in ClickDevices, far \in BOOLEAN, distance_check \in BOOLEAN :
          Swipe(d, "SWIPE", far, distance_check)
    \/ \E d \in ClickDevices : Drag(d, "DRAG")
    \/ \E d \in ClickDevices, b \in PlainButtons \ {"SWIPE", "DRAG"} : MultiClick(d, b)
    \/ \E d \in ClickDevices : ClickRecordClear(d)
    \/ \E d \in ClickDevices : AppStart(d)
    \/ \E d \in ClickDevices : AppStop(d)

InitAll == InitDevice /\ InitTimerIdle /\ InitRetryIdle /\ InitRestIdle

SpecClickPlain == InitAll /\ [][NextClickPlain]_vars

----------------------------------------------------------------------------
(* The stuck timer under captures *)

StuckDevices == {1}

NextStuck ==
    \/ Tick(MaxStuckTicks)
    \/ \E d \in StuckDevices, running \in BOOLEAN, first \in CaptureOutcomes,
          avail \in BOOLEAN, second \in CaptureOutcomes :
          Screenshot(d, running, first, avail, second)
    \/ \E d \in StuckDevices, running \in BOOLEAN, outcome \in CaptureOutcomes :
          DumpHierarchy(d, running, outcome)
    \/ \E d \in StuckDevices : now < ClockStart + MaxResetTicks /\ AppStart(d)
    \/ \E d \in StuckDevices : now < ClockStart + MaxResetTicks /\ AppStop(d)
    \/ \E d \in StuckDevices : DisableStuckDetection(d)

SpecStuck == InitAll /\ [][NextStuck]_vars

----------------------------------------------------------------------------
(* Two Device instances in one process *)

SharedDevices == {1, 2}

\* Device.screenshot() with ascreencap available
SharedScreenshot(d, running, first) ==
    /\ stuck_obs.polls < MaxSharedPolls
    /\ Screenshot(d, running, first, TRUE, "ok")

NextShared ==
    \/ \E d \in SharedDevices, far \in BOOLEAN : Swipe(d, "SWIPE", far, TRUE)
    \/ \E d \in SharedDevices : Drag(d, "DRAG")
    \/ \E d \in SharedDevices : ClickRecordClear(d)
    \/ \E d \in SharedDevices : AppStart(d)
    \/ \E d \in SharedDevices, running \in BOOLEAN, first \in CaptureOutcomes :
          SharedScreenshot(d, running, first)

SpecShared == InitAll /\ [][NextShared]_vars

----------------------------------------------------------------------------
(* Captures about once per second and control operations of one Device *)

InspectButtons == {"SWIPE"}

SinceReset == now - stuck_timer.current

\* Control operations made in the first seconds of the behaviour
EarlySwipe(d, name, far, distance_check) ==
    /\ now < ClockStart + MaxResetTicks
    /\ Len(click_record) < MaxInspectClicks
    /\ Swipe(d, name, far, distance_check)

EarlyDrag(d, name) ==
    /\ now < ClockStart + MaxResetTicks
    /\ Len(click_record) < MaxInspectClicks
    /\ Drag(d, name)

EarlyMultiClick(d, button) ==
    /\ now < ClockStart + MaxResetTicks
    /\ Len(click_record) < MaxInspectClicks
    /\ MultiClick(d, button)

\* Captures made at most once more than seconds have passed since the reset
PacedScreenshot(d, running, first) ==
    /\ stuck_obs.polls <= SinceReset
    /\ Screenshot(d, running, first, TRUE, "ok")

PacedDumpHierarchy(d, running, outcome) ==
    /\ stuck_obs.polls <= SinceReset
    /\ DumpHierarchy(d, running, outcome)

\* One second passes once the second was used for a capture
PacedTick ==
    /\ stuck_obs.polls >= SinceReset \/ \E d \in StuckDevices : disabled[d]
    /\ Tick(MaxStuckTicks)

NextInspect ==
    \/ PacedTick
    \/ \E d \in StuckDevices, running \in BOOLEAN, first \in CaptureOutcomes :
          PacedScreenshot(d, running, first)
    \/ \E d \in StuckDevices, running \in BOOLEAN, outcome \in CaptureOutcomes :
          PacedDumpHierarchy(d, running, outcome)
    \/ \E d \in StuckDevices, name \in InspectButtons, far \in BOOLEAN,
          distance_check \in BOOLEAN : EarlySwipe(d, name, far, distance_check)
    \/ \E d \in StuckDevices, name \in InspectButtons : EarlyDrag(d, name)
    \/ \E d \in StuckDevices, button \in InspectButtons : EarlyMultiClick(d, button)
    \/ \E d \in StuckDevices : DisableStuckDetection(d)

SpecInspect == InitAll /\ [][NextInspect]_vars

\* The two identifiers of the allowance of click_record_check, clicked by
\* multi_click()
BlessingButtons == {"CHOOSE_OPTION_CONFIRM", "BLESSING_CONFIRM"}

NextBlessing ==
    \/ \E d \in ClickDevices, b \in BlessingButtons : MultiClick(d, b)
    \/ \E d \in ClickDevices : ClickRecordClear(d)

SpecBlessing == InitAll /\ [][NextBlessing]_vars

\* End points of swipes: 0, 9, 10 (twice), sqrt(98) and sqrt(50) px apart
SwipeStarts == {<<0, 0>>, <<3, 4>>}
SwipeEnds == {<<0, 0>>, <<9, 0>>, <<10, 0>>, <<6, 8>>, <<7, 7>>, <<8, 9>>}
SwipeNames == {"SWIPE"}

NextSwipe ==
    \/ \E d \in ClickDevices, name \in SwipeNames, p1 \in SwipeStarts,
          p2 \in SwipeEnds, distance_check \in BOOLEAN :
          SwipePoints(d, name, p1, p2, distance_check)
    \/ \E d \in ClickDevices : ClickRecordClear(d)

SpecSwipe == InitAll /\ [][NextSwipe]_vars

----------------------------------------------------------------------------
(* Buffers handed to the decoders *)

\* Lengths of the warning in front of the token, its bytes, compressed blocks
PrefixLengths == {0, 1, 500}
GarbageBytes == {0, 66}
Blocks == {<<9>>, <<9, 66, 77, 90, 49, 9>>}

\* A whole reply of screencap with garbage bytes between the header and the
\* pixels; the bytes of the pixels differ from one another
GarbageLengths == {0, 1, 5}
RawWithGarbage(width, height, garbage) ==
    u32le(width) \o u32le(height) \o u32le(1)
        \o [i \in 1..garbage |-> 200 + i]
        \o [i \in 1..(width * height * 4) |-> i]

GarbageInputs ==
    {RawWithGarbage(w, h, g) : w \in 0..MaxRawSide, h \in 0..MaxRawSide,
                               g \in GarbageLengths}

RawInputs ==
    {RawScreencap(w, h, len) : w \in 0..MaxRawSide, h \in 0..MaxRawSide,
                               len \in 0..(12 + 4 * MaxRawSide * MaxRawSide)}

InitDecode ==
    /\ InitDevice /\ InitTimerIdle /\ InitRetryIdle
    /\ shot = ShotIdle /\ nemu = NemuIdle
    /\ mt = MtIdle /\ conn = ConnIdle
    /\ \/ \E data \in RawInputs \cup GarbageInputs :
             dec = [DecIdle EXCEPT !.op = "load_screencap", !.data = data]
       \/ dec = [DecIdle EXCEPT !.op = "reposition"]
       \/ dec = [DecIdle EXCEPT !.op = "process_screenshot"]

\* Replies without the token: nothing, a text, the token cut short
CorruptedReplies ==
    {<<>>, <<9>>, <<66, 77, 90>>, <<9, 66, 77, 90>>, <<66, 77, 90, 9, 49>>,
     <<77, 90, 49, 66, 77, 90>>}

NextDecode ==
    \/ LoadScreencap
    \/ \E data \in CorruptedReplies : RepositionCorrupted(data)
    \/ \E k \in PrefixLengths, fill \in GarbageBytes, block \in Blocks :
          Reposition(k, fill, block)
    \/ InitScreenshotTool
    \/ \E screenshot \in ScreencapReplies : ProcessScreenshot(screenshot)

SpecDecode == InitDecode /\ [][NextDecode]_vars

----------------------------------------------------------------------------
(* A NemuIpcImpl object, its caller and the workers of its jobs *)

InitNemu ==
    /\ InitDevice /\ InitTimerIdle /\ InitRetryIdle
    /\ dec = DecIdle /\ shot = ShotIdle
    /\ mt = MtIdle /\ conn = ConnIdle
    /\ nemu = NemuIdle

NextNemu ==
    \/ \E creply \in Replies : StartScreenshot(creply)
    \/ \E j \in 1..MaxJobs, creply, reply \in Replies, res \in Resolutions :
          WorkerResolution(j, creply, reply, res)
    \/ \E j \in 1..MaxJobs, ret \in {0, 1, NegativeStatus} : WorkerCapture(j, ret)
    \/ JobResult
    \/ JobTimeout
    \/ \E creply, reply \in Replies : Up(creply, reply)
    \/ \E reply \in Replies : Disconnect(reply)

SpecNemu == InitNemu /\ [][NextNemu]_vars

----------------------------------------------------------------------------
(* A MaaTouch object, its caller and its pre-warm threads *)

InitMaaTouch ==
    /\ InitDevice /\ InitTimerIdle /\ InitRetryIdle
    /\ dec = DecIdle /\ shot = ShotIdle /\ nemu = NemuIdle
    /\ conn = ConnIdle
    /\ mt = MtIdle

NextMaaTouch ==
    \/ DeviceInit
    \/ \E t \in 1..MaxThreads, o \in Orientations : ThreadOrientation(t, o)
    \/ \E t \in 1..MaxThreads, installed \in BOOLEAN : ThreadStream(t, installed)
    \/ \E o \in Orientations : GetOrientation(o)
    \/ ClickCall
    \/ \E init_raises, installed \in BOOLEAN, o \in Orientations,
          outcome \in SendOutcomes :
          ClickAttempt(init_raises, o, installed, outcome)

SpecMaaTouch == InitMaaTouch /\ [][NextMaaTouch]_vars

InitTunnel ==
    /\ InitDevice /\ InitTimerIdle /\ InitRetryIdle
    /\ dec = DecIdle /\ shot = ShotIdle /\ nemu = NemuIdle
    /\ mt = MtIdle /\ conn = ConnIdle

NextTunnel ==
    \/ \E serial \in Serials, local \in Locals, remote \in Remotes :
            ForwardListed(serial, local, remote)
    \/ \E local \in Locals, remote \in Remotes : ReverseListed(local, remote)
    \/ \E remote \in Remotes, random \in 1..MaxPort : AdbForward(remote, random)
    \/ \E remote \in Remotes, random \in 1..MaxPort : AdbReverse(remote, random)

SpecTunnel == InitTunnel /\ [][NextTunnel]_vars

\* a removal of a cached value that raises when there is none
del_raises_KeyError(cache, name) ==
    [cache |-> [cache EXCEPT ![name] = NotCached],
     error |-> IF cache[name] = NotCached THEN "KeyError" ELSE "none"]

\* del_cached_property(obj, name): the KeyError of a missing value is passed
del_cached_property(cache, name) ==
    [cache |-> [cache EXCEPT ![name] = NotCached], error |-> "none"]

\* what the remediations of the retry wrappers read and write: the cached
\* values of the Connection, the fields of the DeviceConnection, the helper
\* files on the device and the byte pointer of the ScreenshotComponent
session == [cache |-> conn.cache, fields |-> conn.fields,
            pushed |-> conn.pushed, pointer |-> dec.pointer,
            error |-> "none"]

Remedies == {"adb_reconnect", "del_cached_property", "maatouch_install",
             "init_screenshot_tool"}

\* one run of a remediation on a session s:
\* adb_reconnect() releases the resources of the Connection,
\* del_cached_property(self, '_maatouch_builder') drops the touch builder,
\* maatouch_install() pushes the touch helper, and init_screenshot_tool()
\* sets the byte pointer to 0, reads cpu_abi and sdk_ver and pushes ascreencap
remediation(kind, s) ==
    CASE kind = "adb_reconnect" ->
           [s EXCEPT !.cache = release_resource(@)]
      [] kind = "del_cached_property" ->
           LET r == del_cached_property(s.cache, "_maatouch_builder")
           IN  [s EXCEPT !.cache = r.cache, !.error = r.error]
      [] kind = "maatouch_install" ->
           [s EXCEPT !.pushed = @ \cup {"maatouch"}]
      [] kind = "init_screenshot_tool" ->
           [s EXCEPT !.pointer = 0,
                     !.fields = cached_get(
                                   cached_get(@, "_cpu_abi", conn.device_connection),
                                   "_sdk_ver", conn.device_connection),
                     !.pushed = @ \cup {"ascreencap"}]

\* A remediation of a retry wrapper runs; a new connection is made by
\* adb_reconnect() only
Remediate(kind) ==
    /\ dec.op = "reposition"
    /\ kind = "adb_reconnect" => conn.connection <= MaxRemedyRuns
    /\ LET t == remediation(kind, session)
           again == /\ conn.remedy.kind = kind
                    /\ [conn.remedy.twice EXCEPT !.error = "none"] = session
       IN  /\ conn' = [conn EXCEPT
                 !.cache = t.cache, !.fields = t.fields, !.pushed = t.pushed,
                 !.connection = IF kind = "adb_reconnect" THEN @ + 1 ELSE @,
                 !.served = IF kind = "adb_reconnect"
                            THEN [name |-> "none"] ELSE @,
                 !.remedy = [kind |-> kind,
                             runs |-> IF again THEN 2 ELSE 1,
                             once |-> IF again THEN conn.remedy.once ELSE t,
                             twice |-> t,
                             error |-> t.error]]
           /\ dec' = IF kind = "init_screenshot_tool"
                     THEN [dec EXCEPT !.pointer = 0, !.out = [status |-> "none"]]
                     ELSE dec
    /\ UNCHANGED <<deviceVars, now, timerVars, retryVars, shotVars, nemuVars, mtVars>>

\* a decode that leaves the byte pointer behind, early in the life of the
\* component
EarlyRepositionCorrupted(data) ==
    /\ dec.pointer < MaxRemedyPointer
    /\ RepositionCorrupted(data)

RemedyReads == {"cpu_abi", "hermit_session", "_maatouch_builder"}

InitRemedy ==
    /\ InitDevice /\ InitTimerIdle /\ InitRetryIdle
    /\ shot = ShotIdle /\ nemu = NemuIdle
    /\ mt = MtIdle /\ conn = ConnIdle
    /\ dec = [DecIdle EXCEPT !.op = "reposition"]

NextRemedy ==
    \/ \E name \in RemedyReads : Get(name)
    \/ \E data \in CorruptedReplies : EarlyRepositionCorrupted(data)
    \/ \E kind \in Remedies : Remediate(kind)

SpecRemedy == InitRemedy /\ [][NextRemedy]_vars

InitSession ==
    /\ InitDevice /\ InitTimerIdle /\ InitRetryIdle
    /\ dec = DecIdle /\ shot = ShotIdle /\ nemu = NemuIdle
    /\ mt = MtIdle /\ conn = ConnIdle

NextSession ==
    \/ \E name \in ConnectionNames : Get(name)
    \/ AdbShellNc
    \/ AdbReconnect
    \/ \E name \in DeviceConnectionNames : DeviceConnectionGet(name)
    \/ DeviceConnectionReconnect

SpecSession == InitSession /\ [][NextSession]_vars

ManagerSerials == {1, 2}

NextManager ==
    \/ \E serial \in ManagerSerials, outcome \in ConnectOutcomes :
          ConnectDevice(serial, outcome)
    \/ DisconnectDevice
    \/ AddResource
    \/ ManagerOperation

SpecManager == InitSession /\ [][NextManager]_vars

----------------------------------------------------------------------------
(* Captures through Screenshot.screenshot() *)

ScreenshotMethods == {"ADB", "uiautomator2", "DroidCast"}
Displays == [1..2 -> {0, 1}]

InitScreenshot ==
    /\ InitDevice /\ InitTimerIdle /\ InitRetryIdle
    /\ dec = DecIdle /\ nemu = NemuIdle
    /\ mt = MtIdle /\ conn = ConnIdle
    /\ \E wsa \in BOOLEAN, method \in ScreenshotMethods, mumu \in BOOLEAN :
          /\ wsa => ~mumu
          /\ shot = [ShotIdle EXCEPT !.wsa = wsa, !.method = method, !.mumu = mumu]

NextScreenshot ==
    \/ \E frame1, frame2 \in Frames, displays1, displays2 \in Displays :
          TakeScreenshot(frame1, frame2, displays1, displays2)

SpecScreenshot == InitScreenshot /\ [][NextScreenshot]_vars

----------------------------------------------------------------------------
(* A free-standing Timer and its caller *)

TimerLimits == {2, 5}
TimerCounts == {0, 3}
SetCurrentValues == {0, 6}
SetCountValues == {0, 2}

Never == 0 - 1

\* What the caller of the Timer has seen: when it last reset (or started) the
\* timer, how often it polled since, whether it called clear() or
\* set_current() since, whether it polled once per second since ("at0": first
\* poll at the reset, "at1": first poll one second later), and the last poll
NoPoll == [state |-> "none", result |-> FALSE, elapsed |-> 0, polls |-> 0, cadence |-> "broken"]

ObsNew == [since |-> Never, polls |-> 0, touched |-> FALSE, cadence |-> "broken",
           poll |-> NoPoll]

ObsAfterReset(time) ==
    [since |-> time, polls |-> 0, touched |-> FALSE, cadence |-> "unpolled",
     poll |-> NoPoll]

ObsQuiet(o) == [o EXCEPT !.poll = NoPoll]

ObsTouched(o) == [o EXCEPT !.poll = NoPoll, !.touched = TRUE, !.cadence = "broken"]

NextCadence(o, e) ==
    IF o.since = Never THEN "broken"
    ELSE IF o.cadence = "unpolled"
    THEN (IF e = 0 THEN "at0" ELSE IF e = 1 THEN "at1" ELSE "broken")
    ELSE IF o.cadence = "at0" /\ e = o.polls THEN "at0"
    ELSE IF o.cadence = "at1" /\ e = o.polls + 1 THEN "at1"
    ELSE "broken"

\* The poll as its caller saw it: the timer was never reset ("unreset"), was
\* touched by clear() or set_current() since its reset ("touched"), or neither
PollSeen(o, time, r) ==
    [state   |-> IF o.since = Never THEN "unreset"
                 ELSE IF o.touched THEN "touched" ELSE "clean",
     result  |-> r,
     elapsed |-> IF o.since = Never THEN 0 ELSE time - o.since,
     polls   |-> o.polls + 1,
     cadence |-> NextCadence(o, time - o.since)]

ObsAfterPoll(o, time, r) ==
    [o EXCEPT !.polls = o.polls + 1,
              !.cadence = NextCadence(o, time - o.since),
              !.poll = PollSeen(o, time, r)]

TimerStart ==
    /\ timer' = start(timer, now)
    /\ timer_obs' = IF started(timer) THEN ObsQuiet(timer_obs) ELSE ObsAfterReset(now)
    /\ UNCHANGED <<deviceVars, now, retryVars, restVars>>

TimerReached ==
    /\ timer.reach_count < MaxReach /\ timer_obs.polls < MaxReach
    /\ timer' = reachedTimer(timer)
    /\ timer_obs' = ObsAfterPoll(timer_obs, now, reached(timer, now))
    /\ UNCHANGED <<deviceVars, now, retryVars, restVars>>

TimerReset ==
    /\ timer' = reset(timer, now)
    /\ timer_obs' = ObsAfterReset(now)
    /\ UNCHANGED <<deviceVars, now, retryVars, restVars>>

TimerClear ==
    /\ timer' = clear(timer)
    /\ timer_obs' = ObsTouched(timer_obs)
    /\ UNCHANGED <<deviceVars, now, retryVars, restVars>>

TimerSetCurrent(cur, cnt) ==
    /\ timer' = set_current(timer, now, cur, cnt)
    /\ timer_obs' = ObsTouched(timer_obs)
    /\ UNCHANGED <<deviceVars, now, retryVars, restVars>>

\* Timer.reached_and_reset()
TimerReachedAndReset ==
    /\ timer.reach_count < MaxReach /\ timer_obs.polls < MaxReach
    /\ \E r \in {reached(timer, now)} :
          /\ timer' = IF r THEN reset(reachedTimer(timer), now) ELSE reachedTimer(timer)
          /\ timer_obs' = IF r THEN [ObsAfterReset(now) EXCEPT
                                         !.poll = PollSeen(timer_obs, now, r)]
                          ELSE ObsAfterPoll(timer_obs, now, r)
    /\ UNCHANGED <<deviceVars, now, retryVars, restVars>>

\* Timer.wait(): sleeps until limit seconds after the start of the timer
TimerWait ==
    /\ timer.current + timer.limit > now
    /\ timer.current + timer.limit <= ClockStart + MaxTimerTicks
    /\ now' = timer.current + timer.limit
    /\ timer_obs' = ObsQuiet(timer_obs)
    /\ UNCHANGED <<deviceVars, timer, retryVars, restVars>>

TimerTick ==
    /\ now < ClockStart + MaxTimerTicks
    /\ now' = now + 1
    /\ timer_obs' = ObsQuiet(timer_obs)
    /\ UNCHANGED <<deviceVars, timer, retryVars, restVars>>

InitTimer ==
    /\ \E limit \in TimerLimits, count \in TimerCounts : timer = TimerNew(limit, count)
    /\ timer_obs = ObsNew

NextTimer ==
    \/ TimerStart
    \/ TimerReached
    \/ TimerReset
    \/ TimerClear
    \/ \E cur \in SetCurrentValues, cnt \in SetCountValues : TimerSetCurrent(cur, cnt)
    \/ TimerReachedAndReset
    \/ TimerWait
    \/ TimerTick

InitAllTimer == InitDevice /\ InitTimer /\ InitRetryIdle /\ InitRestIdle

SpecTimer == InitAllTimer /\ [][NextTimer]_vars

----------------------------------------------------------------------------
(* Retry-wrapped operations and Device.screenshot() over them *)

RetryDevices == {1}

NextRetry ==
    \/ \E w \in Wrappers : RetryCall(w)
    \/ \E d \in RetryDevices, running \in BOOLEAN : ScreenshotCall(d, running)
    \/ \E io \in {NoError} \cup Errors, fo \in Returns \cup Errors, avail \in BOOLEAN :
          RetryAttempt(io, fo, avail)

SpecRetry == InitAll /\ [][NextRetry]_vars

----------------------------------------------------------------------------
(* Properties of the loop detector *)

ControlOpNames == {"swipe", "drag", "multi_click"}

\* The last step was a control operation whose click_record_check ran
DetectorRan == last_op.op \in ControlOpNames /\ last_op.ran

DetectorFired == last_op.error = "GameTooManyClickError"

\* The 15 most recently recorded operations of a record
MostRecent15(rec) == SubSeq(rec, IF Len(rec) > 15 THEN Len(rec) - 14 ELSE 1, Len(rec))

\* The 15 entries of a record that were recorded first
Oldest15(rec) == SubSeq(rec, 1, IF Len(rec) > 15 THEN 15 ELSE Len(rec))

SomeIdAtLeast(rec, n) == \E x \in Ids(rec) : Count(rec, x) >= n

TwoIdsAtLeast(rec, n) ==
    \E x \in Ids(rec) : \E y \in Ids(rec) \ {x} : Count(rec, x) >= n /\ Count(rec, y) >= n

\* C1: whenever one identifier occupies at least 12 of the 15 most recently
\* recorded operations, click_record_check raises GameTooManyClickError.
C1_FiresOnTwelveOfMostRecent15 ==
    (DetectorRan /\ SomeIdAtLeast(MostRecent15(last_op.checked), 12)) => DetectorFired

C3_SilentBelowThresholds ==
    (/\ DetectorRan
     /\ ~SomeIdAtLeast(MostRecent15(last_op.checked), 12)
     /\ ~TwoIdsAtLeast(last_op.checked, 6)) => ~DetectorFired

----------------------------------------------------------------------------
(* Properties of the stuck timer *)

CaptureOpNames == {"screenshot", "dump_hierarchy"}

Unresponsive ==
    \/ last_op.error = "GameStuckError" /\ last_op.app = "running"
    \/ last_op.error = "GameNotRunningError" /\ last_op.app = "not_running"

----------------------------------------------------------------------------
(* Properties of Timer.reached() *)

PollExpected(p, t) == p.elapsed > t.limit /\ p.polls > t.count

\* C4: a poll of a timer that was reset returns true only if, at that poll,
\* more than limit seconds passed since the last reset and more than count
\* polls, the current one included, were made since that reset.
C4_ReachedOnlyIfElapsedAndPolls ==
    timer_obs.poll.state \in {"touched", "clean"}
        => (timer_obs.poll.result => PollExpected(timer_obs.poll, timer))

\* C4 as amended: a poll of a timer on which neither clear() nor set_current()
\* was called since its last reset (or start) returns true exactly if more than
\* limit seconds passed since that reset and more than count polls, the current
\* one included, were made since.
C4_ReachedIffElapsedAndPollsUntouched ==
    timer_obs.poll.state = "clean"
        => (timer_obs.poll.result <=> PollExpected(timer_obs.poll, timer))

C4_Witness ==
    /\ timer_obs.poll.state = "clean"
    /\ timer_obs.poll.result
    /\ timer_obs.poll.polls = timer.count + 1
    /\ timer_obs.poll.elapsed = timer.limit + 1

\* C5: a timer with limit 5 and count 3 that is reset and then polled once per
\* second returns false at every poll with elapsed <= 5 or at most 3 polls and
\* true at every poll with elapsed > 5 and more than 3 polls.
C5_FiveSecondsThreePolls ==
    (/\ timer.limit = 5 /\ timer.count = 3
     /\ timer_obs.poll.state = "clean"
     /\ timer_obs.poll.cadence \in {"at0", "at1"})
        => (timer_obs.poll.result
                <=> (timer_obs.poll.elapsed > 5 /\ timer_obs.poll.polls > 3))

C5_Witness ==
    /\ timer.limit = 5 /\ timer.count = 3
    /\ timer_obs.poll.state = "clean" /\ timer_obs.poll.cadence = "at0"
    /\ timer_obs.poll.elapsed = 6 /\ timer_obs.poll.polls = 7
    /\ timer_obs.poll.result

----------------------------------------------------------------------------
(* Properties of the retry decorators *)

WrapperDone == retry_ctx.pc = "done" /\ retry_ctx.caller # "none"

Escalated ==
    /\ WrapperDone
    /\ retry_out.status = "raised"
    /\ retry_out.error = "RequestHumanTakeover"

\* C7: when every attempt of a retry-wrapped operation failed, the
\* RequestHumanTakeover raised by the wrapper carries the exception of the last
\* failed attempt as its cause.
C7_ExhaustionCarriesLastCause ==
    (Escalated /\ retry_ctx.fails = RETRY_TRIES)
        => retry_out.cause = retry_ctx.last_error

\* C8: when the first k attempts failed and attempt k+1 returned, func was
\* invoked k+1 times, init() ran k times, and the caller holds the value func
\* returned last.
C8_InvokedOncePerAttempt ==
    (WrapperDone /\ retry_out.status = "returned")
        => /\ retry_ctx.calls = retry_ctx.fails + 1
           /\ retry_ctx.inits = retry_ctx.fails
           /\ retry_out.value = retry_ctx.func_value

\* C8 as amended: when the first k iterations failed and iteration k+1
\* returned, init() ran k times, func was invoked k+1 times less the number of
\* iterations in which init() itself raised, and the caller holds the value
\* func returned last.
C8_InvokedUnlessInitRaised ==
    (WrapperDone /\ retry_out.status = "returned")
        => /\ retry_ctx.calls = retry_ctx.fails + 1 - retry_ctx.init_raised
           /\ retry_ctx.inits = retry_ctx.fails
           /\ retry_out.value = retry_ctx.func_value

C8_Witness ==
    /\ WrapperDone /\ retry_out.status = "returned"
    /\ retry_ctx.fails = RETRY_TRIES - 1
    /\ retry_ctx.init_raised = 0
    /\ retry_ctx.calls = RETRY_TRIES /\ retry_ctx.inits = RETRY_TRIES - 1
    /\ retry_ctx.last_error.type = "ConnectionResetError"
    /\ retry_out.value = 2

LoopEndsOnTakeover ==
    retry_ctx.pc = "loop" => retry_ctx.last_error.type # "RequestHumanTakeover"

\* C9: a RequestHumanTakeover raised inside a retry-wrapped operation ends the
\* loop at once, and the caller of the outermost operation, the caller of
\* Device.screenshot() included, receives a RequestHumanTakeover.
C9_TakeoverReachesCaller ==
    /\ LoopEndsOnTakeover
    /\ (retry_out.status # "none" /\ (retry_out.takeover1 \/ retry_out.takeover2))
          => (retry_out.status = "raised" /\ retry_out.error = "RequestHumanTakeover")

\* C9 as amended: a RequestHumanTakeover raised inside a retry-wrapped
\* operation ends the loop at once and the wrapper raises RequestHumanTakeover;
\* the caller receives it unless Device.screenshot() found ascreencap_available
\* false, ran the benchmark and captured again: then the caller receives the
\* outcome of that second capture.
C9_TakeoverReachesCallerUnlessFallback ==
    /\ LoopEndsOnTakeover
    /\ (retry_out.status # "none"
            /\ ((retry_out.takeover1 /\ ~retry_out.fallback) \/ retry_out.takeover2))
          => (retry_out.status = "raised" /\ retry_out.error = "RequestHumanTakeover")

C9_Witness ==
    /\ WrapperDone /\ retry_ctx.caller = "Device.screenshot"
    /\ retry_out.takeover1 /\ ~retry_out.fallback
    /\ retry_ctx.fails = 2 /\ retry_ctx.last_error.type = "RequestHumanTakeover"
    /\ retry_out.status = "raised"

AdbErrorUnrecognised(e) == e.type = "AdbError" /\ ~e.adb /\ ~e.host

----------------------------------------------------------------------------
(* Which remediation runs before the next attempt *)

ReconnectInits ==
    {"adb_reconnect", "adb_reconnect,del_maatouch_builder", "connection.reconnect"}

RestartInits ==
    {"adb_start_server,adb_reconnect",
     "adb_start_server,adb_reconnect,del_maatouch_builder",
     "connection.start_server,connection.reconnect"}

ReinstallInits == {"maatouch_install,del_maatouch_builder", "init_screenshot_tool"}

RemediationRan == retry_ctx.ran_init # "None"

\* C11: in the wrappers of maatouch.py and components/screenshot.py the init()
\* executed before an attempt is the one of the category of the failure before
\* it: connection reset or abort, or a recognised AdbError -> reconnect;
\* unknown host service -> restart the server and reconnect; helper missing ->
\* install or initialise the helper; any other exception -> nothing.
C11_RemediationByCategory ==
    (RemediationRan /\ retry_ctx.wrapper \in {"maatouch", "screenshot_component"})
      => LET e == retry_ctx.ran_after
             r == retry_ctx.ran_init
         IN  IF e.type \in {"ConnectionResetError", "ConnectionAbortedError"}
                \/ (e.type = "AdbError" /\ e.adb)
             THEN r \in ReconnectInits
             ELSE IF e.type = "AdbError" /\ e.host
             THEN r \in RestartInits
             ELSE IF e.type \in {"MaaTouchNotInstalledError", "ScreenshotError"}
             THEN r \in ReinstallInits \/ r = "pass"
             ELSE r = "pass"

\* C11 as amended: the same table, except that ConnectionAbortedError leads to
\* a reconnect in maatouch.py only (elsewhere to nothing), that
\* MaaTouchNotInstalledError is a category of maatouch.py and ScreenshotError
\* one of components/screenshot.py, and that a BrokenPipeError in maatouch.py
\* drops the cached MaaTouch builder; in maatouch.py every init() other than
\* the no-op also drops that builder.
C11_RemediationByCategoryPerWrapper ==
    (RemediationRan /\ retry_ctx.wrapper \in {"maatouch", "screenshot_component"})
      => LET e == retry_ctx.ran_after
             r == retry_ctx.ran_init
             m == retry_ctx.wrapper = "maatouch"
         IN  IF e.type = "ConnectionResetError"
                \/ (e.type = "ConnectionAbortedError" /\ m)
                \/ (e.type = "AdbError" /\ e.adb)
             THEN r = IF m THEN "adb_reconnect,del_maatouch_builder"
                      ELSE "connection.reconnect"
             ELSE IF e.type = "AdbError" /\ e.host
             THEN r = IF m THEN "adb_start_server,adb_reconnect,del_maatouch_builder"
                      ELSE "connection.start_server,connection.reconnect"
             ELSE IF e.type = "MaaTouchNotInstalledError" /\ m
             THEN r = "maatouch_install,del_maatouch_builder"
             ELSE IF e.type = "ScreenshotError" /\ ~m
             THEN r = "init_screenshot_tool"
             ELSE IF e.type = "BrokenPipeError" /\ m
             THEN r = "del_maatouch_builder"
             ELSE r = "pass"

C11_Witness ==
    /\ RemediationRan /\ retry_ctx.wrapper = "maatouch"
    /\ retry_ctx.ran_after.type = "MaaTouchNotInstalledError"
    /\ retry_ctx.ran_init = "maatouch_install,del_maatouch_builder"
    /\ retry_ctx.inits = 2

----------------------------------------------------------------------------
(* The loop detector and the operations it guards *)

----------------------------------------------------------------------------
(* Watchdog state and Device instances *)

\* C13: an operation made through one Device instance leaves the click record
\* and the stuck timer seen through every other Device instance unchanged.
C13_OtherInstancesUnchanged ==
    [][\A d \in Devices :
          (last_op'.device # 0 /\ last_op'.device # d)
              => /\ click_record_of(d)' = click_record_of(d)
                 /\ stuck_timer_of(d)' = stuck_timer_of(d)]_vars

----------------------------------------------------------------------------
(* The watchdog is consulted before an operation goes out *)

\* C14: on a device whose stuck detection is not disabled, every screenshot and
\* dump_hierarchy polls the stuck timer and issues the capture only if the
\* timer is not reached, and every swipe, drag and multi_click runs the loop
\* detector on the record that ends with the new operation and hands the
\* operation to the controller only if the detector stays silent.
C14_InspectedBeforeOperation ==
    (last_op.device # 0 /\ ~disabled[last_op.device])
      => /\ last_op.op \in CaptureOpNames
              => /\ last_op.ran
                 /\ last_op.sent
                      => ~(last_op.elapsed > STUCK_LIMIT /\ last_op.polls > STUCK_COUNT)
         /\ last_op.op \in ControlOpNames
              => /\ last_op.ran
                 /\ last_op.checked # <<>>
                 /\ last_op.checked[Len(last_op.checked)] = last_op.button
                 /\ last_op.sent => click_record_check(last_op.checked) = "none"

C14_Witness ==
    /\ last_op.op = "screenshot" /\ ~disabled[last_op.device]
    /\ last_op.ran /\ last_op.sent
    /\ last_op.elapsed = STUCK_LIMIT /\ last_op.polls = STUCK_COUNT + 1

----------------------------------------------------------------------------
(* Properties of the decoders *)

Decoded(op) == dec.op = op /\ dec.out.status # "none"

\* C15: load_screencap raises ImageTruncated whenever fewer than
\* width * height * 4 bytes follow the 12-byte header, and an image it returns
\* has the shape of the header and holds bytes of the payload only.
C15_TruncatedRawFails ==
    (Decoded("load_screencap") /\ Len(dec.data) >= 12)
      => LET width  == u32at(dec.data, 1)
             height == u32at(dec.data, 5)
             payload == SubSeq(dec.data, 13, Len(dec.data))
         IN  /\ Len(payload) < width * height * 4 => dec.out.status = "ImageTruncated"
             /\ dec.out.status = "image"
                  => /\ dec.out.width = width /\ dec.out.height = height
                     /\ dec.out.pixels = BGRA2BGR(LastN(payload, width * height * 4))

Decoding == {m \in 0..2 : __load_screenshot(dec.data, m).status = "ok"}

\* The entries of methods up to and including the first one that decodes
TriedOf(methods) ==
    IF \E i \in 1..Len(methods) : methods[i] \in Decoding
    THEN SubSeq(methods, 1,
                CHOOSE i \in 1..Len(methods) :
                    /\ methods[i] \in Decoding
                    /\ \A j \in 1..(i - 1) : methods[j] \notin Decoding)
    ELSE methods

\* C17: every decode tries the rules in the fixed order zero, one, two, returns
\* the first candidate that decodes as an image and fails only if none of the
\* three decodes.
C17_RulesTriedInFixedOrder ==
    Decoded("process_screenshot")
      => /\ dec.out.tried = TriedOf(<<0, 1, 2>>)
         /\ (dec.out.status = "OSError") = (Decoding = {})
         /\ dec.out.status = "ok"
              => dec.out.image = __load_screenshot(dec.data, dec.out.method).image

\* C17 as amended: every decode tries first the rule the previous decode
\* settled on, if that decode succeeded, and then zero, one, two; it returns the
\* first candidate that decodes and fails only if none of the three decodes.
C17_RulesTriedLastGoodFirst ==
    Decoded("process_screenshot")
      => /\ dec.order = IF dec.prev = NoMethod THEN <<0, 1, 2>>
                         ELSE <<dec.prev, 0, 1, 2>>
         /\ dec.out.tried = TriedOf(dec.order)
         /\ (dec.out.status = "OSError") = (Decoding = {})
         /\ dec.out.status = "ok"
              => /\ dec.out.method = dec.out.tried[Len(dec.out.tried)]
                 /\ dec.out.image = __load_screenshot(dec.data, dec.out.method).image
                 /\ dec.out.image \in PngFiles

C17_Witness ==
    /\ Decoded("process_screenshot")
    /\ dec.prev = 2 /\ dec.order = <<2, 0, 1, 2>>
    /\ dec.out.status = "ok" /\ dec.out.tried = <<2, 0, 1>>

\* C18: when the mean pixel value of a captured frame over the reference region
\* is effectively zero, screenshot() captures again and does not return the
\* black frame to its caller.
C18_BlackFrameNotReturned ==
    shot.out.status = "ok"
      => /\ ~sum_color_below_1(shot.out.image)
         /\ \A i \in 1..Len(shot.captured) :
               sum_color_below_1(shot.captured[i]) => i < Len(shot.captured)

\* C19: after a capture call has timed out and its worker is abandoned, a later
\* completion of that call changes neither the connection id nor the width or
\* height of the object, and its result is returned to no caller.
C19_AbandonedCompletionDiscarded ==
    /\ nemu.last.abandoned => ~nemu.last.changed
    /\ (nemu.out.status = "ok" /\ nemu.out.job # 0)
         => ~nemu.jobs[nemu.out.job].abandoned

\* C20: every native call made for a capture or an injection runs on a worker
\* bounded by the timeout, never on the calling thread.
C20_NativeCallsOnWorkers ==
    \A call \in nemu.native : call.thread = "worker"

\* Whether click_maatouch() has sent, be it that the send raised
Sent == mt.sent.status # "none"

\* C21: no batch is sent while a pre-warm thread is still running: every
\* gesture joins the pre-warm thread before its first send.
C21_NoSendDuringPreWarm ==
    Sent => mt.sent.running = {}

\* C23: once an operation has failed with a transport-loss error, no later
\* send uses the stream or the builder that were in use when the loss was seen.
C23_LostTransportNotReused ==
    Sent => ~mt.sent.reused

\* C26: after maatouch_send returns the batch of the builder is empty; each
\* committed batch is transmitted once and none of its events appears in a
\* later send.
C26_BatchSentOnce ==
    /\ (Sent /\ mt.sent.status = "returned") => mt.runs[mt.sent.builder].batch = <<>>
    /\ Sent => mt.sent.repeats = {}

C24_ForwardIdempotent ==
    conn.ret.op = "adb_forward" =>
        LET before == ForwardsTo(conn.ret.before, conn.ret.remote)
            after  == ForwardsTo(conn.forwards, conn.ret.remote)
            again  == adb_forward(conn.forwards, conn.ret.remote, conn.ret.port)
        IN  /\ Cardinality(after) = 1
            /\ \A i \in after : conn.forwards[i].local.port = conn.ret.port
            /\ before # {} =>
                  /\ \A i \in before : (\A j \in before : i <= j) =>
                        conn.ret.port = conn.ret.before[i].local.port
                  /\ LocalsOf(conn.forwards) \subseteq LocalsOf(conn.ret.before)
            /\ again.port = conn.ret.port
            /\ again.forwards = conn.forwards

C24_Witness ==
    /\ conn.ret.op = "adb_forward"
    /\ Cardinality(ForwardsTo(conn.ret.before, conn.ret.remote)) >= 2
    /\ Len(conn.forwards) >= 2

\* C25: when adb_reverse(remote) has returned, exactly one tcp reverse of
\* remote is listed.
C25_OneReversePerRemote ==
    conn.ret.op = "adb_reverse" =>
        Cardinality(ReversesTo(conn.reverses, conn.ret.remote)) = 1

\* C22: after a reconnect, every cached identity or tunnel value that is
\* served was resolved on the connection made by the latest reconnect.
C22_NothingServedFromBeforeReconnect ==
    conn.served.name # "none" => conn.served.from = conn.served.current

C29_NonZeroStatusRaises ==
    ("ret" \in DOMAIN nemu.out /\ nemu.out.ret \notin {0, TimedOut}) =>
        nemu.out.status # "ok"

\* the width, the height and the number of pixel bytes the header of the
\* buffer announces, and whether the buffer holds them all behind the header
HeaderWidth == u32at(dec.data, 1)
HeaderHeight == u32at(dec.data, 5)
HeaderNeed == HeaderWidth * HeaderHeight * 4
WholeReplyDecoded ==
    /\ dec.op = "load_screencap" /\ dec.out.status # "none"
    /\ Len(dec.data) >= 12
    /\ Len(dec.data) >= 12 + HeaderNeed
DecodedFromTail ==
    /\ dec.out.status = "image"
    /\ dec.out.height = HeaderHeight /\ dec.out.width = HeaderWidth
    /\ Len(dec.out.pixels) = 3 * HeaderWidth * HeaderHeight
    /\ \A k \in 1..Len(dec.out.pixels) :
          dec.out.pixels[k] =
              dec.data[Len(dec.data) - HeaderNeed + 4 * ((k - 1) \div 3)
                       + ((k - 1) % 3) + 1]

\* C30 as stated: for every header, a buffer that ends with the w * h * 4
\* pixel bytes decodes to an image of height h and width w made of the last
\* w * h * 4 bytes.
C30_TailDecodedForAnyHeader ==
    WholeReplyDecoded => DecodedFromTail

\* C30: for a header with w >= 1 and h >= 1, a buffer that ends with the
\* w * h * 4 pixel bytes, garbage between header and pixels or not, decodes to
\* an image of height h and width w whose pixels are the first three bytes of
\* every four of the last w * h * 4 bytes of the buffer.
C30_TailDecodedForNonEmptyScreen ==
    (WholeReplyDecoded /\ HeaderNeed > 0) => DecodedFromTail

C30_Witness ==
    /\ WholeReplyDecoded /\ DecodedFromTail
    /\ HeaderNeed >= 8
    /\ Len(dec.data) > 12 + HeaderNeed

\* whether b'BMZ1' occurs in the buffer of the last scan
TokenOccurs == \E q \in 0..Len(dec.data) : Slice4(dec.data, q) = BMZ1

\* C31: a scan of a buffer in which the token does not occur ends with
\* ScreenshotError, returns no bytes, and leaves the pointer at most one past
\* where it began or at the length of the buffer.
C31_AbsentTokenRaises ==
    (dec.op = "reposition" /\ dec.out.status # "none" /\ ~TokenOccurs) =>
        /\ dec.out.status = "ScreenshotError"
        /\ dec.out.bytes = <<>>
        /\ dec.pointer <= dec.start + 1 \/ dec.pointer <= Len(dec.data)

C31_Witness ==
    /\ dec.op = "reposition" /\ dec.out.status = "ScreenshotError"
    /\ ~TokenOccurs
    /\ dec.start = 0 /\ Len(dec.data) >= 5
    /\ dec.pointer = Len(dec.data)

\* C37: whatever was decoded before, the scan of a buffer that holds the
\* token returns the buffer from the first occurrence of the token in it.
C37_ScanIndependentOfHistory ==
    (dec.op = "reposition" /\ dec.out.status # "none" /\ TokenOccurs) =>
        /\ dec.out.status = "ok"
        /\ Slice4(dec.data, dec.pointer) = BMZ1
        /\ \A q \in 0..Len(dec.data) :
              Slice4(dec.data, q) = BMZ1 => dec.pointer <= q

\* C33: when connect_device has raised, the serial is None and the monitor
\* thread does not run; and an operation made right after it is refused as
\* not connected.
C33_FailedConnectLeavesDisconnected ==
    /\ (conn.manager.out.op = "connect_device" /\ conn.manager.out.raised) =>
          /\ conn.manager.serial = NoSerial
          /\ ~conn.manager.monitor_thread
    /\ (/\ conn.manager.out.op = "operation"
        /\ conn.manager.out.after_failed_connect) =>
          conn.manager.out.result = "not connected"


StepAt(step) ==
    IF \E k \in 1..Len(retry_ctx.steps) : retry_ctx.steps[k] = step
    THEN CHOOSE k \in 1..Len(retry_ctx.steps) : retry_ctx.steps[k] = step
    ELSE 0

\* C34 as stated: between a failed attempt and the next attempt the
\* remediation runs first and the delay follows it
C34_RemediationThenDelay ==
    StepAt("func") > 0 /\ StepAt("init") > 0 =>
        /\ StepAt("sleep") > StepAt("init")
        /\ StepAt("sleep") < StepAt("func")

\* C34: between a failed attempt and the next attempt the delay comes first
\* and the remediation follows it: failed attempt, delay, remediation, next
\* attempt; a remediation that raises ends the iteration without an attempt
C34_DelayThenRemediation ==
    StepAt("init") > 0 =>
        /\ retry_ctx.fails >= 1
        /\ StepAt("sleep") = 1 /\ StepAt("init") = 2
        /\ StepAt("func") \in {0, 3}
        /\ StepAt("func") = 0 => retry_ctx.init_raised >= 1

\* a retry ran its remediation and then the next attempt
C34_Witness ==
    /\ retry_ctx.steps = <<"sleep", "init", "func">>
    /\ retry_ctx.ran_init = "adb_reconnect"
    /\ retry_ctx.calls = 2

\* C35: a swipe that is shorter than the minimum distance and is checked for
\* it has no effect on the watchdogs: the loop-detector record and the stuck
\* timer stay as they were and the loop detector does not fire
C35_DroppedSwipeLeavesWatchdogs ==
    [][(/\ last_op'.op = "swipe"
        /\ last_op'.distance_check
        /\ norm_below_10(last_op'.p1, last_op'.p2))
       => /\ click_record' = click_record
          /\ stuck_timer' = stuck_timer
          /\ last_op'.error = "none"]_vars

\* C36: at the start of every attempt of a retry-wrapped MaaTouch gesture the
\* batch of the builder is empty, so that the events queued by an attempt
\* whose send failed are not transmitted with those of a later attempt
C36_BatchEmptyAtAttemptStart ==
    Sent => mt.sent.at_start = <<>>

\* C38: at most one MaaTouch initialisation runs at a time: no pre-warm thread
\* is started while an earlier one is still running, and no two threads are
\* inside maatouch_init together
C38_OneInitAtATime ==
    /\ Cardinality(Running(mt)) <= 1
    /\ Cardinality({t \in 1..Len(mt.threads) : mt.threads[t].pc = "shell"}) <= 1

StuckErrors == {"GameStuckError", "GameNotRunningError"}

C39_WitnessStuck ==
    /\ last_op.after \in StuckErrors
    /\ last_op.op = "screenshot" /\ last_op.ran /\ last_op.error = "none"

\* the single-identifier trigger of click_record_check on a record
SingleTrigger(rec) == most_common2(first15(rec))[1][2] >= SINGLE_LIMIT

\* the single-identifier trigger is suppressed only when both
\* CHOOSE_OPTION_CONFIRM and BLESSING_CONFIRM are in the record and
\* BLESSING_CONFIRM is the most frequent identifier of the whole record, with
\* fewer than 25 occurrences
SuppressedOnlyForBlessing ==
    (/\ last_op.op = "multi_click" /\ last_op.ran
     /\ SingleTrigger(last_op.checked) /\ last_op.error = "none")
    => /\ "CHOOSE_OPTION_CONFIRM" \in Ids(last_op.checked)
       /\ "BLESSING_CONFIRM" \in Ids(last_op.checked)
       /\ Count(last_op.checked, "BLESSING_CONFIRM") < BLESSING_LIMIT
       /\ \A x \in Ids(last_op.checked) :
             Count(last_op.checked, x) <= Count(last_op.checked, "BLESSING_CONFIRM")

\* C40: the single-identifier trigger is suppressed only under the allowance
\* for BLESSING_CONFIRM, and once BLESSING_CONFIRM has 25 or more occurrences
\* in the record the detector fires
C40_BlessingAllowanceEndsAt25 ==
    /\ SuppressedOnlyForBlessing
    /\ (/\ last_op.op = "multi_click" /\ last_op.ran
        /\ Count(last_op.checked, "BLESSING_CONFIRM") >= BLESSING_LIMIT)
       => last_op.error = "GameTooManyClickError"
====
